---- MODULE Spec2Model ----
(***************************************************************************)
(* Pain (src/Pain.py): keyboard-driven pane resizing for a tiled window.   *)
(*                                                                         *)
(* The host window holds a layout: two lists of separator positions (cols  *)
(* and rows) and a list of cells, each cell four indices [x1, y1, x2, y2]  *)
(* into those lists, plus the index of the focused cell.  A resize command *)
(* normalizes the layout (sort_layout), selects a separator, moves it and  *)
(* normalizes again; an equalize command spreads the separators evenly.    *)
(*                                                                         *)
(* Positions are exact rationals here: a position p in [0, 1] is the       *)
(* integer p * 100 * Unit, so that the 0.01 grid of round(x, 2) and the    *)
(* fractions i/(N-1) written by equalize are both integers.  Binary        *)
(* floating point noise of the source (0.3 - 0.01 is not the float 0.29)   *)
(* is not represented.                                                     *)
(*                                                                         *)
(* Python lists are objects: sort_layout relabels the cells of the layout  *)
(* it is given in place and follows the active cell by reference, while    *)
(* comparing it by value.  A cell object is modelled by its position in    *)
(* the cell list that was read from the host.                              *)
(***************************************************************************)
EXTENDS Integers, Sequences, FiniteSets, TLC

\* src/Pain.py:18  LEFT, UP, RIGHT, DOWN = range(4)
LEFT == 0
UP == 1
RIGHT == 2
DOWN == 3

\* src/Pain.py:21  X_1, Y_1, X_2, Y_2 = range(4): slots of a cell
X_1 == 0
Y_1 == 1
X_2 == 2
Y_2 == 3

\* src/Pain.py:24-25
WIDTH == "width"
HEIGHT == "height"

\* src/Pain.py:34
OPPOSITE(d) ==
    CASE d = UP -> DOWN
      [] d = RIGHT -> LEFT
      [] d = DOWN -> UP
      [] d = LEFT -> RIGHT

\* One hundredth (0.01) in model units: the least common multiple of the
\* numbers of gaps (1..4) of the modelled axes, so that i/(N-1) is exact.
Unit == 3 * 4
\* The position 1.0.
One == 100 * Unit
\* h hundredths as a position.
Pos(h) == h * Unit

\* Python's 0-based subscript on a list or a cell.
At(s, i) == s[i + 1]
\* list.index(x): the 0-based index of the first element equal to x.
IndexOf(s, x) == (CHOOSE i \in 1..Len(s) : s[i] = x /\ \A j \in 1..(i - 1) : s[j] # x) - 1
\* s with the element at 0-based index i replaced by v.
SetAt(s, i, v) == [s EXCEPT ![i + 1] = v]

Min(S) == CHOOSE x \in S : \A y \in S : x <= y
Max(S) == CHOOSE x \in S : \A y \in S : x >= y

\* src/Pain.py:37-46
get_indices(dimension) == IF dimension = WIDTH THEN <<X_1, X_2>> ELSE <<Y_1, Y_2>>

\* src/Pain.py:49-51
is_cols(dimension) == dimension = WIDTH

\* src/Pain.py:54-67
get_points(layout, dimension) == IF dimension = WIDTH THEN layout.cols ELSE layout.rows

\* src/Pain.py:70-87
set_points(layout, dimension, points) ==
    IF dimension = WIDTH THEN [layout EXCEPT !.cols = points]
    ELSE [layout EXCEPT !.rows = points]

\* src/Pain.py:401-423
create_layout(active_group, cols, rows, cells) ==
    [active_group |-> active_group, cols |-> cols, rows |-> rows, cells |-> cells]

\* src/Pain.py:228-240
get_active_cell(layout) == At(layout.cells, layout.active_group)

(***************************************************************************)
(* Layout sorting and cell swapping                                        *)
(***************************************************************************)

\* A sort that gives up after one comparison: x goes first or second.
InsertShallow(s, x) ==
    IF s = <<>> THEN <<x>>
    ELSE IF x < Head(s) THEN <<x>> \o s
    ELSE <<Head(s), x>> \o Tail(s)

\* sorted(points): ascending, by insertion.
RECURSIVE InsertSorted(_, _)
InsertSorted(s, x) ==
    IF s = <<>> THEN <<x>>
    ELSE IF x < Head(s) THEN <<x>> \o s
    ELSE <<Head(s)>> \o InsertSorted(Tail(s), x)

RECURSIVE Sorted(_)
Sorted(s) == IF s = <<>> THEN <<>> ELSE InsertSorted(Sorted(SubSeq(s, 1, Len(s) - 1)), s[Len(s)])

\* Python's list comparison on two cells: lexicographic.
CellLess(a, b) ==
    \E k \in 1..4 : a[k] < b[k] /\ \A j \in 1..(k - 1) : a[j] = b[j]

\* A cell sort that puts every cell first: the list comes out reversed.
InsertCellFirst(s, c) == <<c>> \o s

RECURSIVE InsertCell(_, _)
InsertCell(s, c) ==
    IF s = <<>> THEN <<c>>
    ELSE IF CellLess(c, Head(s)) THEN <<c>> \o s
    ELSE <<Head(s)>> \o InsertCell(Tail(s), c)

\* sorted(cells), src/Pain.py:396
RECURSIVE SortedCells(_)
SortedCells(s) ==
    IF s = <<>> THEN <<>> ELSE InsertCell(SortedCells(SubSeq(s, 1, Len(s) - 1)), s[Len(s)])

\* src/Pain.py:327-347: exchange the two indices of swap in the slots `indices`.
swap_cell(cell, swap, indices) ==
    LET slot(k) ==
            IF (k - 1) \in {indices[1], indices[2]}
            THEN IF cell[k] = swap[1] THEN swap[2]
                 ELSE IF cell[k] = swap[2] THEN swap[1]
                 ELSE cell[k]
            ELSE cell[k]
    IN  <<slot(1), slot(2), slot(3), slot(4)>>

\* src/Pain.py:369-373: one pair per position whose value is not at its sorted
\* place, pairing it with the first sorted index holding that value.
RECURSIVE raw_swaps(_, _, _)
raw_swaps(swap_pos, pos, i) ==
    IF i >= Len(pos) THEN <<>>
    ELSE IF At(pos, i) # At(swap_pos, i)
         THEN LET sorted_index == IndexOf(swap_pos, At(pos, i))
              IN  <<IF i <= sorted_index THEN <<i, sorted_index>> ELSE <<sorted_index, i>>>>
                  \o raw_swaps(swap_pos, pos, i + 1)
         ELSE raw_swaps(swap_pos, pos, i + 1)

\* src/Pain.py:374: itertools.groupby keeps one of each run of equal neighbours.
RECURSIVE unique_swaps(_)
unique_swaps(raw) ==
    IF Len(raw) <= 1 THEN raw
    ELSE LET rest == unique_swaps(Tail(raw))
         IN  IF raw[1] = raw[2] THEN rest ELSE <<raw[1]>> \o rest

\* src/Pain.py:375-380: the loops over the cells (ci) and the swaps (si).  st.cells
\* are the cell objects in the order of the list, st.active the object the
\* variable active_cell refers to.
RECURSIVE swap_loop(_, _, _, _, _)
swap_loop(st, swaps, points, ci, si) ==
    IF ci > Len(st.cells) THEN st
    ELSE IF si > Len(swaps) THEN swap_loop(st, swaps, points, ci + 1, 1)
    ELSE LET is_active == st.cells[st.active] = st.cells[ci]
             cell == swap_cell(st.cells[ci], swaps[si], points)
         IN  swap_loop([cells |-> [st.cells EXCEPT ![ci] = cell],
                        active |-> IF is_active THEN ci ELSE st.active],
                       swaps, points, ci, si + 1)

\* src/Pain.py:350-381
swap_cells(swap_pos, pos, st, points) ==
    swap_loop(st, unique_swaps(raw_swaps(swap_pos, pos, 0)), points, 1, 1)

\* src/Pain.py:426-447; sorted_points is sorted(points).
sort_points_and_swap_cells(sorted_points, points, st, indices) ==
    [points |-> sorted_points, st |-> swap_cells(sorted_points, points, st, indices)]

\* src/Pain.py:498-501: the rows, on the cell objects the columns left.
sort_rows_and_swap_cells(layout, c) ==
    [cols |-> c.points,
     sorted |-> sort_points_and_swap_cells(Sorted(layout.rows), layout.rows, c.st,
                                           <<Y_1, Y_2>>)]

\* src/Pain.py:477-501: columns first, then rows, on the same cell objects.
\* The result holds the sorted cols, and in sorted the sorted rows with the cell
\* objects (st.cells, in the order of layout.cells) and active_cell (st.active).
sort_layout_and_swap_cells(layout) ==
    sort_rows_and_swap_cells(layout,
        sort_points_and_swap_cells(Sorted(layout.cols), layout.cols,
            [cells |-> layout.cells, active |-> layout.active_group + 1],
            <<X_1, X_2>>))

\* src/Pain.py:396-398; cells is sorted(cells).
sort_layout_result(s, cells) ==
    create_layout(IndexOf(cells, s.sorted.st.cells[s.sorted.st.active]),
                  s.cols, s.sorted.points, cells)

\* src/Pain.py:384-398, with the cell objects of the layout it was given, in
\* their order in that list, as it leaves them (it relabels them in place).
sort_layout_in_place(s) ==
    [sorted_layout |-> sort_layout_result(s, SortedCells(s.sorted.st.cells)),
     cells |-> s.sorted.st.cells]

\* src/Pain.py:384-398
sort_layout(layout) == sort_layout_in_place(sort_layout_and_swap_cells(layout)).sorted_layout

(***************************************************************************)
(* Resize model: sign functions and separator selection                    *)
(***************************************************************************)

\* A sign with the comparison turned round: point >= len(points) / 2 - 1.
get_sign_growth_turned(point, points) == IF 2 * point >= Len(points) - 2 THEN 1 ELSE -1

\* src/Pain.py:93-110: point <= len(points) / 2 - 1, a true division.
get_sign_growth(point, points) == IF 2 * point <= Len(points) - 2 THEN 1 ELSE -1

\* src/Pain.py:113-129
get_sign_directional(point, points) == 1

\* A growth selector that stays on the boundary the sign points to, window
\* edge or not.
get_point_index_growth_at_edge(cell, points, dimension, sign) ==
    LET point1 == get_indices(dimension)[1]
        point2 == get_indices(dimension)[2]
    IN  IF At(cell, point1) = 0 /\ At(cell, point2) = Len(points) - 1 THEN <<-1, 0>>
        ELSE <<IF sign > 0 THEN At(cell, point2) ELSE At(cell, point1), sign>>

\* A growth selector that keeps the sign it was given at the window edge.
get_point_index_growth_unturned(cell, points, dimension, sign) ==
    LET point1 == get_indices(dimension)[1]
        point2 == get_indices(dimension)[2]
        point_index == IF sign > 0 THEN At(cell, point2) ELSE At(cell, point1)
        other_index == IF sign > 0 THEN At(cell, point1) ELSE At(cell, point2)
    IN  IF At(cell, point1) = 0 /\ At(cell, point2) = Len(points) - 1 THEN <<-1, 0>>
        ELSE IF point_index = 0 \/ point_index = Len(points) - 1
             THEN <<other_index, sign>>
             ELSE <<point_index, sign>>

\* src/Pain.py:135-171: <<separator index, adjusted sign>>
get_point_index_growth(cell, points, dimension, sign) ==
    LET point1 == get_indices(dimension)[1]
        point2 == get_indices(dimension)[2]
        point_index == IF sign > 0 THEN At(cell, point2) ELSE At(cell, point1)
        other_index == IF sign > 0 THEN At(cell, point1) ELSE At(cell, point2)
    IN  IF At(cell, point1) = 0 /\ At(cell, point2) = Len(points) - 1 THEN <<-1, 0>>
        ELSE IF point_index = 0 \/ point_index = Len(points) - 1
             THEN <<other_index, get_sign_growth(other_index, points) * (-1)>>
             ELSE <<point_index, sign>>

\* A directional selector that does not look for a cell spanning the axis.
get_point_index_directional_unguarded(cell, points, dimension, sign) ==
    LET point1 == get_indices(dimension)[1]
        point2 == get_indices(dimension)[2]
    IN  IF At(cell, point2) = Len(points) - 1 THEN <<At(cell, point1), sign>>
        ELSE <<At(cell, point2), sign>>

\* A directional selector without the fallback to the left/top boundary.
get_point_index_directional_far(cell, points, dimension, sign) ==
    LET point1 == get_indices(dimension)[1]
        point2 == get_indices(dimension)[2]
    IN  IF At(cell, point1) = 0 /\ At(cell, point2) = Len(points) - 1 THEN <<-1, 0>>
        ELSE <<At(cell, point2), sign>>

\* src/Pain.py:174-204
get_point_index_directional(cell, points, dimension, sign) ==
    LET point1 == get_indices(dimension)[1]
        point2 == get_indices(dimension)[2]
        point_index == At(cell, point2)
    IN  IF At(cell, point1) = 0 /\ At(cell, point2) = Len(points) - 1 THEN <<-1, 0>>
        ELSE IF point_index = Len(points) - 1 THEN <<At(cell, point1), sign>>
             ELSE <<point_index, sign>>

(***************************************************************************)
(* Adjacency and boundary helpers                                          *)
(***************************************************************************)

\* src/Pain.py:210-225
get_adjacent_direction(dimension, sign) ==
    IF is_cols(dimension) THEN (IF sign > 0 THEN RIGHT ELSE LEFT)
    ELSE (IF sign > 0 THEN DOWN ELSE UP)

\* src/Pain.py:258-263: the second component of coordinate_map[direction].
coordinate_map(direction) ==
    CASE direction = LEFT -> X_2
      [] direction = UP -> Y_2
      [] direction = RIGHT -> X_1
      [] direction = DOWN -> Y_1

\* src/Pain.py:243-270, for the one-direction lists its callers pass: the
\* positions (in cells) of the cells touching the separator.
get_adjacent_cells(point_index, cells, direction) ==
    {k \in 1..Len(cells) : point_index = At(cells[k], coordinate_map(direction))}

\* Boundary indices without the second search of lines 317-319: for sign -1
\* the upper bound comes only from the cells that begin where the cell ends.
get_point_min_max_one_search(cell, cells, point_index, dimension, sign) ==
    LET point1 == get_indices(dimension)[1]
        point2 == get_indices(dimension)[2]
        direction == get_adjacent_direction(dimension, sign)
        opposite == OPPOSITE(direction)
        near(S) == {At(cells[k], point1) : k \in S}
        far(S) == {At(cells[k], point2) : k \in S}
        result(lo, hi) == [raises |-> FALSE, min |-> lo, max |-> hi]
    IN  IF sign > 0
        THEN LET max_adj == get_adjacent_cells(point_index, cells, direction)
                 point_max == IF max_adj # {} THEN Min(far(max_adj)) ELSE At(cell, point2)
                 min_adj == get_adjacent_cells(At(cell, point2), cells, opposite)
                 point_min == IF min_adj # {} THEN Max(near(min_adj)) ELSE At(cell, point1)
             IN  result(point_min, point_max)
        ELSE LET min_adj == get_adjacent_cells(point_index, cells, direction)
                 point_min == IF min_adj # {} THEN Max(near(min_adj)) ELSE At(cell, point1)
                 max_adj == get_adjacent_cells(At(cell, point2), cells, opposite)
             IN  IF max_adj # {} THEN result(point_min, Min(near(max_adj)))
                 ELSE [raises |-> TRUE, min |-> point_min, max |-> point_min]

\* src/Pain.py:273-321: the <<min index, max index>> pair as a record; raises is
\* set where min() is given no cell at all (line 319, a ValueError).
get_point_min_max(cell, cells, point_index, dimension, sign) ==
    LET point1 == get_indices(dimension)[1]
        point2 == get_indices(dimension)[2]
        direction == get_adjacent_direction(dimension, sign)
        opposite == OPPOSITE(direction)
        near(S) == {At(cells[k], point1) : k \in S}
        far(S) == {At(cells[k], point2) : k \in S}
        result(lo, hi) == [raises |-> FALSE, min |-> lo, max |-> hi]
    IN  IF sign > 0
        THEN LET max_adj == get_adjacent_cells(point_index, cells, direction)
                 point_max == IF max_adj # {} THEN Min(far(max_adj)) ELSE At(cell, point2)
                 min_adj == get_adjacent_cells(At(cell, point2), cells, opposite)
                 point_min == IF min_adj # {} THEN Max(near(min_adj)) ELSE At(cell, point1)
             IN  result(point_min, point_max)
        ELSE LET min_adj == get_adjacent_cells(point_index, cells, direction)
                 point_min == IF min_adj # {} THEN Max(near(min_adj)) ELSE At(cell, point1)
                 max_adj == get_adjacent_cells(At(cell, point2), cells, opposite)
                 max_adj2 == get_adjacent_cells(At(cell, point1), cells, opposite)
             IN  IF max_adj # {} THEN result(point_min, Min(near(max_adj)))
                 ELSE IF max_adj2 # {} THEN result(point_min, Min(far(max_adj2)))
                 ELSE [raises |-> TRUE, min |-> point_min, max |-> point_min]

(***************************************************************************)
(* Value calculation                                                       *)
(***************************************************************************)

\* round(x, 2): the nearest hundredth, a tie going to the even one.
Round2(x) ==
    LET q == x \div Unit
        r == x % Unit
    IN  IF 2 * r < Unit THEN q * Unit
        ELSE IF 2 * r > Unit THEN (q + 1) * Unit
        ELSE IF q % 2 = 0 THEN q * Unit ELSE (q + 1) * Unit

\* A new position that is not rounded: point_value + amount / 100.
calc_point_value_unrounded(point_value, amount) == point_value + amount * Unit

\* src/Pain.py:507-520
calc_point_value(point_value, amount) == Round2(point_value + amount * Unit)

\* A clamp onto the bounds themselves, without the 0.01 step inward.
calc_point_value_onto_boundaries(point_value, amount, point_min, point_max) ==
    Max({point_min, Min({point_max, calc_point_value(point_value, amount)})})

\* src/Pain.py:523-548
calc_point_value_in_boundaries(point_value, amount, point_min, point_max) ==
    LET v0 == calc_point_value(point_value, amount)
        v1 == IF v0 >= point_max THEN point_max - Pos(1) ELSE v0
    IN  IF v1 <= point_min THEN point_min + Pos(1) ELSE v1

\* A check that lets a value on a bound pass: min_value <= value <= max_value.
is_valid_point_value_closed(value, min_value, max_value) ==
    min_value <= value /\ value <= max_value

\* src/Pain.py:551-566
is_valid_point_value(value, min_value, max_value) == min_value < value /\ value < max_value

\* src/Pain.py:602-612: the loop from index i in direction step over
\* greedy_points; done is cleared by the return of line 612.
RECURSIVE greedy_loop(_, _, _, _)
greedy_loop(greedy_points, i, step, amount) ==
    IF i < 0 \/ i >= Len(greedy_points) THEN [done |-> TRUE, points |-> greedy_points]
    ELSE LET index == i - step
             overlap == IF step = 1
                        THEN At(greedy_points, i) <= At(greedy_points, index)
                        ELSE At(greedy_points, i) >= At(greedy_points, index)
             new_val == calc_point_value(At(greedy_points, index), amount)
         IN  IF ~overlap THEN greedy_loop(greedy_points, i + step, step, amount)
             ELSE IF is_valid_point_value(new_val, 0, One) /\ new_val # At(greedy_points, index)
                  THEN greedy_loop(SetAt(greedy_points, i, new_val), i + step, step, amount)
                  ELSE [done |-> FALSE, points |-> greedy_points]

\* A cascade that keeps what it had pushed when a push fails: greedy_points is
\* returned in place of points.
get_greedy_points_partial(point_index, points, new_point_value, amount) ==
    greedy_loop(SetAt(points, point_index, new_point_value),
                point_index + (IF At(points, point_index) < new_point_value THEN 1 ELSE -1),
                IF At(points, point_index) < new_point_value THEN 1 ELSE -1,
                amount).points

\* A cascade that always gives up: the points as they were.
get_greedy_points_given_up(point_index, points, new_point_value, amount) == points

\* src/Pain.py:569-614
get_greedy_points(point_index, points, new_point_value, amount) ==
    LET greedy_points == SetAt(points, point_index, new_point_value)
        step == IF At(points, point_index) < new_point_value THEN 1 ELSE -1
        res == greedy_loop(greedy_points, point_index + step, step, amount)
    IN  IF res.done THEN res.points ELSE points

(***************************************************************************)
(* Settings                                                                *)
(***************************************************************************)

\* src/Pain.py:627
VALID_RESIZE_MODES == {"directional", "growth"}

\* src/Pain.py:696: the value None of _last_invalid_mode.
None == "None"

\* src/Pain.py:698-713, on a numeric setting.
get_resize_amount(raw) ==
    IF raw <= 0 THEN 1
    ELSE IF raw > 100 THEN 100
    ELSE raw

(***************************************************************************)
(* The value stored under resize_amount is whatever the settings file      *)
(* holds.  A raw value is [kind, val]: an integer ("int", val), a finite   *)
(* float in tenths ("float", val = 10 * x), an infinite float ("inf"), a   *)
(* NaN ("nan"), a boolean ("bool", val 0 or 1), a string ("str", val its   *)
(* characters), null ("null"), a list ("list"), or no entry ("absent").    *)
(***************************************************************************)

Digits == <<"0", "1", "2", "3", "4", "5", "6", "7", "8", "9">>

is_digit(c) == \E d \in 1..Len(Digits) : Digits[d] = c

digit_value(c) == (CHOOSE d \in 1..Len(Digits) : Digits[d] = c) - 1

\* str.strip() as int() applies it: blanks at both ends dropped.
RECURSIVE lstrip(_)
lstrip(s) == IF s # <<>> /\ Head(s) = " " THEN lstrip(Tail(s)) ELSE s

RECURSIVE rstrip(_)
rstrip(s) == IF s # <<>> /\ s[Len(s)] = " " THEN rstrip(SubSeq(s, 1, Len(s) - 1)) ELSE s

\* The digits of an integer literal: digits, single underscores between them.
is_literal(s) ==
    /\ s # <<>>
    /\ is_digit(s[1]) /\ is_digit(s[Len(s)])
    /\ \A k \in 1..Len(s) : is_digit(s[k]) \/ s[k] = "_"
    /\ \A k \in 1..(Len(s) - 1) : ~(s[k] = "_" /\ s[k + 1] = "_")

RECURSIVE literal_value(_, _)
literal_value(s, acc) ==
    IF s = <<>> THEN acc
    ELSE IF Head(s) = "_" THEN literal_value(Tail(s), acc)
    ELSE literal_value(Tail(s), 10 * acc + digit_value(Head(s)))

\* The sign of a stripped literal and what follows it.
unsigned(s) == IF s # <<>> /\ Head(s) \in {"+", "-"} THEN Tail(s) ELSE s

\* int(raw) for a string, already stripped: [raises, value]
int_of_stripped(s) ==
    IF is_literal(unsigned(s))
    THEN [raises |-> "", value |-> IF Head(s) = "-" THEN -literal_value(unsigned(s), 0)
                                   ELSE literal_value(unsigned(s), 0)]
    ELSE [raises |-> "ValueError", value |-> 0]

\* A float in tenths, truncated toward zero.
truncate(tenths) == IF tenths >= 0 THEN tenths \div 10 ELSE -((-tenths) \div 10)

\* src/Pain.py:706: int(raw), as [raises, value]
to_int(raw) ==
    CASE raw.kind = "int" -> [raises |-> "", value |-> raw.val]
      [] raw.kind = "bool" -> [raises |-> "", value |-> raw.val]
      [] raw.kind = "float" -> [raises |-> "", value |-> truncate(raw.val)]
      [] raw.kind = "inf" -> [raises |-> "OverflowError", value |-> 0]
      [] raw.kind = "nan" -> [raises |-> "ValueError", value |-> 0]
      [] raw.kind = "str" -> int_of_stripped(rstrip(lstrip(raw.val)))
      [] OTHER -> [raises |-> "TypeError", value |-> 0]

\* src/Pain.py:705-713, int(raw) done: i is its outcome.
resize_amount_of(i) ==
    IF i.raises \in {"ValueError", "TypeError"} THEN [raises |-> "", value |-> 3]
    ELSE IF i.raises # "" THEN i
    ELSE [raises |-> "", value |-> get_resize_amount(i.value)]

\* src/Pain.py:698-713 on any stored value: [raises, value]; raises names the
\* exception that leaves the method, "" when it returns value.
get_raw_resize_amount(raw) ==
    IF raw.kind = "absent" THEN [raises |-> "", value |-> 3]
    ELSE resize_amount_of(to_int(raw))

\* src/Pain.py:669-676
cycle_resize_mode(st) ==
    [st EXCEPT !.resize_mode = IF st.resize_mode = "directional" THEN "growth" ELSE "directional"]

\* src/Pain.py:658-667, on the greedy_pane key.
toggle_boolean_setting(st) == [st EXCEPT !.greedy_pane = ~st.greedy_pane]

(***************************************************************************)
(* The resize command                                                      *)
(***************************************************************************)

\* A layout with nothing in it: the value of an observation that does not apply.
NoLayout == create_layout(0, <<>>, <<>>, <<>>)

\* src/Pain.py:860-871: sorted_layout, and the cells of the layout read from the
\* host: the objects sort_layout has relabelled.
sort_and_get_layout(layout) == sort_layout_in_place(sort_layout_and_swap_cells(layout))

\* src/Pain.py:873-898: for each position i whose cell is not the one at i in
\* sorted_cells, the views of group i go to the group sorted_cells.index(cell).
RECURSIVE swap_views(_, _, _)
swap_views(cells, sorted_cells, i) ==
    IF i >= Len(cells) THEN <<>>
    ELSE IF At(cells, i) # At(sorted_cells, i)
         THEN <<[from |-> i, group |-> IndexOf(sorted_cells, At(cells, i))]>>
              \o swap_views(cells, sorted_cells, i + 1)
         ELSE swap_views(cells, sorted_cells, i + 1)

\* The bounds found for a move, or the exception that ended the search.
Bounds(lo, hi) == [raises |-> FALSE, min |-> lo, max |-> hi]
NoBounds == [raises |-> TRUE, min |-> 0, max |-> 0]

\* src/Pain.py:805-813
growth_boundaries(points, mm) ==
    IF mm.raises THEN NoBounds ELSE Bounds(At(points, mm.min), At(points, mm.max))

\* Bounds that are the window edges in every mode.
move_boundaries_of_window(mode, greedy, active_cell, cells, points, point_index, dimension, sign) ==
    Bounds(0, One)

\* src/Pain.py:798-813: the bounds of the move.  points[point_index - 1] with
\* point_index 0 is Python's points[-1], the last element; points[point_index + 1]
\* past the end raises IndexError.
move_boundaries(mode, greedy, active_cell, cells, points, point_index, dimension, sign) ==
    IF mode = "directional"
    THEN IF point_index + 1 >= Len(points) THEN NoBounds
         ELSE Bounds(IF point_index = 0 THEN points[Len(points)] ELSE At(points, point_index - 1),
                     At(points, point_index + 1))
    ELSE IF greedy THEN Bounds(0, One)
    ELSE growth_boundaries(points,
             get_point_min_max(active_cell, cells, point_index, dimension, sign))

\* src/Pain.py:785-794: <<point_index, sign>>
select_point(mode, active_cell, points, dimension, point) ==
    IF mode = "directional"
    THEN get_point_index_directional(active_cell, points, dimension,
             get_sign_directional(At(active_cell, point), points))
    ELSE get_point_index_growth(active_cell, points, dimension,
             get_sign_growth(At(active_cell, point), points))

\* Only the chosen separator moved, whatever greedy_pane says.
moved_points_alone(greedy, point_index, points, new_value, amount) ==
    SetAt(points, point_index, new_value)

\* src/Pain.py:822-830: the points after the move.
moved_points(greedy, point_index, points, new_value, amount) ==
    IF greedy THEN get_greedy_points(point_index, points, new_value, amount)
    ELSE SetAt(points, point_index, new_value)

\* What a resize call saw and did, as far as its first lines (752-769) go.
resize_seen(read, layout, cells, st, dimension, amount0) ==
    [cmd |-> "resize", dimension |-> dimension, amount |-> amount0,
     mode |-> st.resize_mode, greedy |-> st.greedy_pane, read |-> read,
     normalized |-> layout, cells |-> cells, moved |-> layout,
     moved_cells |-> layout.cells, final_cells |-> cells, point_index |-> -1, sign |-> 0,
     value |-> 0, min |-> 0, max |-> 0, new_value |-> 0,
     applied |-> FALSE, raised |-> FALSE, alert |-> FALSE, flag |-> None,
     relocations |-> <<>>, set_layouts |-> 1]

\* src/Pain.py:833-834 when no separator moved: layout is sorted_layout.
resize_unmoved(seen, layout, cells) ==
    [host |-> layout, lim |-> None,
     obs |-> [seen EXCEPT !.relocations = swap_views(cells, layout.cells, 0),
                          !.set_layouts = 2]]

\* src/Pain.py:831-834 after a move: final is sort_layout of the moved layout,
\* which relabels the cell objects once more; cells are those objects in the
\* order in which they were read from the host.
resize_moved(seen, final_cells, moved, final) ==
    [host |-> final.sorted_layout, lim |-> None,
     obs |-> [seen EXCEPT
                !.moved = moved, !.moved_cells = final.cells, !.applied = TRUE,
                !.set_layouts = 2, !.final_cells = final_cells,
                !.relocations = swap_views(final_cells, final.sorted_layout.cells, 0)]]

\* The cells read from the host (cells, which layout lists sorted), as the second
\* sort_layout leaves them: final.cells are those objects in the order of layout.
cells_after(layout, cells, final) ==
    [k \in 1..Len(cells) |-> final.cells[IndexOf(layout.cells, cells[k]) + 1]]

\* src/Pain.py:831, the moved layout known.
resize_sort_moved(seen, layout, cells, moved, final) ==
    resize_moved(seen, cells_after(layout, cells, final), moved, final)

\* src/Pain.py:821-834
resize_apply(seen, layout, cells, points, greedy, dimension, point_index, amount, b, new_value) ==
    IF is_valid_point_value(new_value, b.min, b.max)
    THEN resize_sort_moved([seen EXCEPT !.new_value = new_value], layout, cells,
             set_points(layout, dimension,
                        moved_points(greedy, point_index, points, new_value, amount)),
             sort_and_get_layout(
                 set_points(layout, dimension,
                            moved_points(greedy, point_index, points, new_value, amount))))
    ELSE resize_unmoved([seen EXCEPT !.new_value = new_value], layout, cells)

\* src/Pain.py:815-834, the bounds b known.
resize_within(seen, layout, cells, points, greedy, dimension, point_index, amount, b) ==
    IF b.raises THEN [host |-> layout, lim |-> None, obs |-> [seen EXCEPT !.raised = TRUE]]
    ELSE resize_apply([seen EXCEPT !.value = At(points, point_index), !.min = b.min,
                                   !.max = b.max],
             layout, cells, points, greedy, dimension, point_index, amount, b,
             calc_point_value_in_boundaries(At(points, point_index), amount, b.min, b.max))

\* src/Pain.py:796-834, the separator sel = <<point_index, sign>> chosen.
resize_selected(seen, layout, cells, active_cell, points, st, dimension, amount0, sel) ==
    IF sel[1] >= 0
    THEN resize_within([seen EXCEPT !.point_index = sel[1], !.sign = sel[2]],
             layout, cells, points, st.greedy_pane, dimension, sel[1], amount0 * sel[2],
             move_boundaries(st.resize_mode, st.greedy_pane, active_cell, cells, points,
                             sel[1], dimension, sel[2]))
    ELSE resize_unmoved([seen EXCEPT !.point_index = sel[1], !.sign = sel[2]], layout, cells)

\* A debounce that reports the mode it has already reported: mode == flag.
reports_known(mode, lim) == mode = lim

\* src/Pain.py:771: mode != PainResizeCommand._last_invalid_mode
reports(mode, lim) == mode # lim

\* A resize without line 783: a valid mode leaves _last_invalid_mode as it was.
resize_sorted_flag_kept(seen, layout, cells, active_cell, points, st, lim, dimension, amount0) ==
    IF st.resize_mode \notin VALID_RESIZE_MODES
    THEN [host |-> layout, lim |-> st.resize_mode,
          obs |-> [seen EXCEPT !.alert = reports(st.resize_mode, lim)]]
    ELSE [resize_selected(seen, layout, cells, active_cell, points, st, dimension, amount0,
              select_point(st.resize_mode, active_cell, points, dimension,
                           get_indices(dimension)[1]))
          EXCEPT !.lim = lim]

\* A resize without the return of line 782: the unrecognized mode is reported
\* and the resize goes on as it does for growth.
resize_sorted_falling_through(seen, layout, cells, active_cell, points, st, lim, dimension, amount0) ==
    IF st.resize_mode \notin VALID_RESIZE_MODES
    THEN resize_selected([seen EXCEPT !.alert = reports(st.resize_mode, lim)],
             layout, cells, active_cell, points, st, dimension, amount0,
             select_point(st.resize_mode, active_cell, points, dimension,
                          get_indices(dimension)[1]))
    ELSE resize_selected(seen, layout, cells, active_cell, points, st, dimension, amount0,
             select_point(st.resize_mode, active_cell, points, dimension,
                          get_indices(dimension)[1]))

\* src/Pain.py:761-834, sort_and_get_layout done: layout is sorted_layout, cells
\* and active_cell come from the layout read from the host (orig_layout).
resize_sorted(seen, layout, cells, active_cell, points, st, lim, dimension, amount0) ==
    IF st.resize_mode \notin VALID_RESIZE_MODES
    THEN [host |-> layout, lim |-> st.resize_mode,
          obs |-> [seen EXCEPT !.alert = reports(st.resize_mode, lim)]]
    ELSE resize_selected(seen, layout, cells, active_cell, points, st, dimension, amount0,
             select_point(st.resize_mode, active_cell, points, dimension,
                          get_indices(dimension)[1]))

\* src/Pain.py:760-763
resize_read(read, sg, st, lim, dimension, amount0) ==
    resize_sorted([resize_seen(read, sg.sorted_layout, sg.cells, st, dimension, amount0)
                       EXCEPT !.flag = lim],
                  sg.sorted_layout, sg.cells, At(sg.cells, read.active_group),
                  get_points(sg.sorted_layout, dimension), st, lim, dimension, amount0)

\* src/Pain.py:752-834: PainResizeCommand.resize on the layout `read` from the
\* host, with settings st and _last_invalid_mode lim.  The result names the
\* layout the host is left with (host), the new _last_invalid_mode (lim) and
\* what the call saw and did (obs).
resize(read, st, lim, dimension, amount0) ==
    resize_read(read, sort_and_get_layout(read), st, lim, dimension, amount0)

\* An equal spacing that divides by the length: i * (1 / length).
equal_points_by_length(points) == [i \in 1..Len(points) |-> ((i - 1) * One) \div Len(points)]

\* src/Pain.py:748: i * (1 / (length - 1)) for i in range(length)
equal_points(points) == [i \in 1..Len(points) |-> ((i - 1) * One) \div (Len(points) - 1)]

\* src/Pain.py:745-749, one dimension of dims.
equalize_dim(layout, dim) == set_points(layout, dim, equal_points(get_points(layout, dim)))

\* src/Pain.py:744-750 on the sorted layout; dimension is "width", "height" or "all".
equalize_sorted(layout, dimension) ==
    IF dimension = "all" THEN equalize_dim(equalize_dim(layout, WIDTH), HEIGHT)
    ELSE equalize_dim(layout, dimension)

\* src/Pain.py:736-750: PainResizeCommand.equalize
equalize(read, dimension) == equalize_sorted(sort_and_get_layout(read).sorted_layout, dimension)

(***************************************************************************)
(* The arithmetic of src/Pain.py:748 as Python computes it: in IEEE 754    *)
(* binary64, each operation rounded to nearest, ties to even.  A positive  *)
(* float is [bits, exp]: bits is its significand, Precision bits with the  *)
(* most significant (always 1) first, and its value is                     *)
(* 1.b2 b3 ... * 2^exp.  The layouts of Spec have at most five separators  *)
(* on an axis, and up to that length the floats of line 748 are the        *)
(* correctly rounded i/(length-1), which is what equal_points returns.     *)
(***************************************************************************)

\* Significand bits of a binary64 float.
Precision == 53

\* 0.0
Zero64 == [bits |-> <<>>, exp |-> 0]

\* 1.0
One64 == [bits |-> [k \in 1..Precision |-> IF k = 1 THEN 1 ELSE 0], exp |-> 0]

Reverse(s) == [k \in 1..Len(s) |-> s[Len(s) + 1 - k]]

\* a < b on floats that are zero or positive
float_less(a, b) ==
    IF b = Zero64 THEN FALSE
    ELSE IF a = Zero64 THEN TRUE
    ELSE IF a.exp # b.exp THEN a.exp < b.exp
    ELSE \E k \in 1..Precision :
             /\ a.bits[k] < b.bits[k]
             /\ \A j \in 1..(k - 1) : a.bits[j] = b.bits[j]

\* The significand s, least significant bit first, plus one unit in the last place.
RECURSIVE next_up_rev(_)
next_up_rev(s) ==
    IF s = <<>> THEN <<1>>
    ELSE IF Head(s) = 0 THEN <<1>> \o Tail(s)
    ELSE <<0>> \o next_up_rev(Tail(s))

\* A significand that a carry made one bit longer is 1 0 ... 0: one exponent up.
carried(bits, exp) ==
    IF Len(bits) > Precision THEN [bits |-> SubSeq(bits, 1, Precision), exp |-> exp + 1]
    ELSE [bits |-> bits, exp |-> exp]

\* Round to nearest, ties to even: bits holds more than Precision bits of the
\* exact result, sticky says whether anything non-zero follows them.
round_half_even(bits, sticky, exp) ==
    IF /\ bits[Precision + 1] = 1
       /\ \/ sticky
          \/ bits[Precision] = 1
          \/ \E k \in (Precision + 2)..Len(bits) : bits[k] = 1
    THEN carried(Reverse(next_up_rev(Reverse(SubSeq(bits, 1, Precision)))), exp)
    ELSE [bits |-> SubSeq(bits, 1, Precision), exp |-> exp]

\* The next n bits of the binary expansion of r / q, for 0 <= r < q.
RECURSIVE quotient_bits(_, _, _)
quotient_bits(r, q, n) ==
    IF n = 0 THEN <<>>
    ELSE IF 2 * r >= q THEN <<1>> \o quotient_bits(2 * r - q, q, n - 1)
    ELSE <<0>> \o quotient_bits(2 * r, q, n - 1)

\* What is left of r / q after those n bits.
RECURSIVE quotient_rest(_, _, _)
quotient_rest(r, q, n) == IF n = 0 THEN r ELSE quotient_rest((2 * r) % q, q, n - 1)

\* The least k with a * 2^k >= b.
RECURSIVE lead_shift(_, _)
lead_shift(a, b) == IF a >= b THEN 0 ELSE 1 + lead_shift(2 * a, b)

\* a / b for b <= a < 2 * b, scaled by 2^exp.
float_div_lead(a, b, exp) ==
    round_half_even(<<1>> \o quotient_bits(a - b, b, Precision),
                    quotient_rest(a - b, b, Precision) # 0, exp)

\* The float a / b of two integers, 0 <= a <= b, 0 < b.
float_div(a, b) ==
    IF a = 0 THEN Zero64
    ELSE float_div_lead(a * 2^lead_shift(a, b), b, -lead_shift(a, b))

\* The significand s, least significant bit first, times the integer i.
RECURSIVE times_rev(_, _, _)
times_rev(s, i, carry) ==
    IF s = <<>> THEN (IF carry = 0 THEN <<>>
                      ELSE <<carry % 2>> \o times_rev(s, i, carry \div 2))
    ELSE <<(Head(s) * i + carry) % 2>> \o times_rev(Tail(s), i, (Head(s) * i + carry) \div 2)

\* The exact product p (most significant bit first) of a significand of
\* exponent exp, rounded to a float.
float_of_product(p, exp) ==
    IF Len(p) = Precision THEN [bits |-> p, exp |-> exp]
    ELSE round_half_even(p, FALSE, exp + Len(p) - Precision)

\* The float i * x of an integer i >= 0 and a float x.
float_times(i, x) ==
    IF i = 0 \/ x = Zero64 THEN Zero64
    ELSE float_of_product(Reverse(times_rev(Reverse(x.bits), i, 0)), x.exp)

\* src/Pain.py:748 in binary64: [i * (1 / (length - 1)) for i in range(length)]
equal_points_float(length) ==
    [i \in 1..length |-> float_times(i - 1, float_div(1, length - 1))]

\* src/Pain.py:745-749 in binary64, one dimension of dims.
equalize_dim_float(layout, dim) ==
    set_points(layout, dim, equal_points_float(Len(get_points(layout, dim))))

\* src/Pain.py:744-750 in binary64 on the sorted layout.
equalize_sorted_float(layout, dimension) ==
    IF dimension = "all" THEN equalize_dim_float(equalize_dim_float(layout, WIDTH), HEIGHT)
    ELSE equalize_dim_float(layout, dimension)

\* src/Pain.py:736-750 in binary64: PainResizeCommand.equalize
equalize_float(read, dimension) ==
    equalize_sorted_float(sort_and_get_layout(read).sorted_layout, dimension)

\* What a call that only normalizes (sort_and_get_layout) saw: the layout read,
\* sorted_layout, and the cells of the layout read as sort_layout left them.
sorted_seen(cmd, dimension, read, sg) ==
    [cmd |-> cmd, dimension |-> dimension, amount |-> 0, mode |-> "", greedy |-> FALSE,
     read |-> read, normalized |-> sg.sorted_layout, cells |-> sg.cells,
     moved |-> sg.sorted_layout, moved_cells |-> sg.sorted_layout.cells,
     final_cells |-> sg.cells, value |-> 0, min |-> 0, max |-> 0, new_value |-> 0,
     point_index |-> -1, sign |-> 0, applied |-> FALSE, raised |-> FALSE,
     alert |-> FALSE, flag |-> None, relocations |-> <<>>,
     set_layouts |-> IF cmd = "equalize" THEN 2 ELSE 1]

(***************************************************************************)
(* State                                                                   *)
(***************************************************************************)

VARIABLES
    host,               \* the window: window.layout() and window.active_group()
    settings,           \* Pain.sublime-settings: resize_mode, greedy_pane, resize_amount
    last_invalid_mode,  \* PainResizeCommand._last_invalid_mode
    obs,                \* what the last command read, computed and told the host
    steps,              \* resize and equalize commands run so far
    resizes             \* the resize calls ModeSpec has followed: the mode each read, and
                        \* whether it called sublime.error_message (which names that mode)

vars == <<host, settings, last_invalid_mode, obs, steps, resizes>>

\* Resize and equalize commands in one run of the model.
MaxSteps == 2

\* Values of resize_amount the user writes; 3 is the default (src/Pain.py:704).
ResizeAmounts == {3, 50, 60}

\* Values of resize_mode the user writes; "diagonal" stands for any other string.
ResizeModes == VALID_RESIZE_MODES \cup {"diagonal"}

\* src/tests/test_resize_integration.py:74-80: two columns.
TwoCol ==
    create_layout(0, <<Pos(0), Pos(50), Pos(100)>>, <<Pos(0), Pos(100)>>,
                  <<<<0, 0, 1, 1>>, <<1, 0, 2, 1>>>>)

\* Three columns of unequal width.
ThreeCol ==
    create_layout(0, <<Pos(0), Pos(40), Pos(60), Pos(100)>>, <<Pos(0), Pos(100)>>,
                  <<<<0, 0, 1, 1>>, <<1, 0, 2, 1>>, <<2, 0, 3, 1>>>>)

\* src/tests/test_layout.py:78-87: a 2 x 2 grid, its cells row by row as the host
\* lists them (not the order sort_layout gives them).
Grid ==
    create_layout(0, <<Pos(0), Pos(50), Pos(100)>>, <<Pos(0), Pos(50), Pos(100)>>,
                  <<<<0, 0, 1, 1>>, <<1, 0, 2, 1>>, <<0, 1, 1, 2>>, <<1, 1, 2, 2>>>>)

\* Two rows whose column separators do not line up: three panes over two.
Staggered ==
    create_layout(0, <<Pos(0), Pos(25), Pos(50), Pos(75), Pos(100)>>,
                  <<Pos(0), Pos(50), Pos(100)>>,
                  <<<<0, 0, 1, 1>>, <<1, 0, 2, 1>>, <<2, 0, 4, 1>>,
                    <<0, 1, 3, 2>>, <<3, 1, 4, 2>>>>)

\* Two rows of two panes, split at 0.25 above and at 0.75 below.
Brick ==
    create_layout(0, <<Pos(0), Pos(25), Pos(75), Pos(100)>>,
                  <<Pos(0), Pos(50), Pos(100)>>,
                  <<<<0, 0, 1, 1>>, <<1, 0, 3, 1>>, <<0, 1, 2, 2>>, <<2, 1, 3, 2>>>>)

\* One pane across the top, two below it.
Banner ==
    create_layout(0, <<Pos(0), Pos(50), Pos(100)>>, <<Pos(0), Pos(50), Pos(100)>>,
                  <<<<0, 0, 2, 1>>, <<0, 1, 1, 2>>, <<1, 1, 2, 2>>>>)

\* The tilings the window starts with.
InitLayouts == {TwoCol, ThreeCol, Grid, Staggered, Brick, Banner}

\* The observation of a state no command has led to.
Idle ==
    [cmd |-> "none", dimension |-> "", amount |-> 0, mode |-> "", greedy |-> FALSE,
     read |-> NoLayout, normalized |-> NoLayout, cells |-> <<>>, moved |-> NoLayout,
     moved_cells |-> <<>>, final_cells |-> <<>>, value |-> 0, min |-> 0, max |-> 0,
     new_value |-> 0,
     point_index |-> -1, sign |-> 0, applied |-> FALSE, raised |-> FALSE,
     alert |-> FALSE, flag |-> None, relocations |-> <<>>, set_layouts |-> 0]

Init ==
    /\ \E l \in InitLayouts : \E g \in 0..(Len(l.cells) - 1) :
           host = [l EXCEPT !.active_group = g]
    /\ settings = [resize_mode |-> "directional", greedy_pane |-> FALSE, resize_amount |-> 3]
    /\ last_invalid_mode = None
    /\ obs = Idle
    /\ steps = 0
    /\ resizes = <<>>

(***************************************************************************)
(* Commands                                                                *)
(***************************************************************************)

\* src/Pain.py:715-732: PainResizeCommand.run(dimension, "increase" | "decrease")
Run(dimension, direction) ==
    /\ LET amount == get_resize_amount(settings.resize_amount)
           r == resize(host, settings, last_invalid_mode, dimension,
                       IF direction = "decrease" THEN -amount ELSE amount)
       IN  /\ host' = r.host
           /\ last_invalid_mode' = r.lim
           /\ obs' = r.obs
    /\ steps' = steps + 1
    /\ UNCHANGED settings

Resize(dimension, direction) ==
    /\ steps < MaxSteps
    /\ Run(dimension, direction)
    /\ UNCHANGED resizes

\* src/Pain.py:733-734: PainResizeCommand.run(dimension, "equal")
Equalize(dimension) ==
    /\ steps < MaxSteps
    /\ host' = equalize(host, dimension)
    /\ obs' = sorted_seen("equalize", dimension, host, sort_and_get_layout(host))
    /\ steps' = steps + 1
    /\ UNCHANGED <<settings, last_invalid_mode, resizes>>

\* src/Pain.py:908-918: PainToggleSettingCommand.run(setting)
ToggleSetting(setting) ==
    /\ settings' = IF setting = "resize_mode" THEN cycle_resize_mode(settings)
                   ELSE toggle_boolean_setting(settings)
    /\ obs' = Idle
    /\ UNCHANGED <<host, last_invalid_mode, steps, resizes>>

\* The user edits Pain.sublime-settings.
EditSettings ==
    /\ \E m \in ResizeModes : \E a \in ResizeAmounts :
           settings' = [settings EXCEPT !.resize_mode = m, !.resize_amount = a]
    /\ obs' = Idle
    /\ UNCHANGED <<host, last_invalid_mode, steps, resizes>>

\* The user focuses another pane (src/Pain.py:844 reads it back).
FocusGroup ==
    /\ \E g \in 0..(Len(host.cells) - 1) : host' = [host EXCEPT !.active_group = g]
    /\ obs' = Idle
    /\ UNCHANGED <<settings, last_invalid_mode, steps, resizes>>

Next ==
    \/ \E d \in {WIDTH, HEIGHT} : \E r \in {"increase", "decrease"} : Resize(d, r)
    \/ \E d \in {WIDTH, HEIGHT, "all"} : Equalize(d)
    \/ \E k \in {"resize_mode", "greedy_pane"} : ToggleSetting(k)
    \/ EditSettings
    \/ FocusGroup

Spec == Init /\ [][Next]_vars

(***************************************************************************)
(* sort_layout on its own: layouts with their separators in any order      *)
(***************************************************************************)

\* The orders of n separators: p[k + 1] is the index at which separator k is listed.
Orders(n) == {p \in [1..n -> 0..(n - 1)] : \A i, j \in 1..n : p[i] = p[j] => i = j}

\* The layout l with its columns listed in the order pc and its rows in the order
\* pr: the same panes at the same places, under other indices.
reordered(l, pc, pr) ==
    create_layout(l.active_group,
        [j \in 1..Len(l.cols) |-> l.cols[CHOOSE k \in 1..Len(l.cols) : pc[k] = j - 1]],
        [j \in 1..Len(l.rows) |-> l.rows[CHOOSE k \in 1..Len(l.rows) : pr[k] = j - 1]],
        [c \in 1..Len(l.cells) |->
            <<pc[l.cells[c][1] + 1], pr[l.cells[c][2] + 1],
              pc[l.cells[c][3] + 1], pr[l.cells[c][4] + 1]>>])

SortInit ==
    /\ \E l \in InitLayouts : \E g \in 0..(Len(l.cells) - 1) :
       \E pc \in Orders(Len(l.cols)) : \E pr \in Orders(Len(l.rows)) :
           host = reordered([l EXCEPT !.active_group = g], pc, pr)
    /\ settings = [resize_mode |-> "directional", greedy_pane |-> FALSE, resize_amount |-> 3]
    /\ last_invalid_mode = None
    /\ obs = Idle
    /\ steps = 0
    /\ resizes = <<>>

\* src/Pain.py:860-871: sort_and_get_layout, which hands sorted_layout to the host.
SortAndGetLayout ==
    /\ steps < MaxSteps
    /\ host' = sort_layout(host)
    /\ obs' = sorted_seen("sort", "", host, sort_and_get_layout(host))
    /\ steps' = steps + 1
    /\ UNCHANGED <<settings, last_invalid_mode, resizes>>

SortSpec == SortInit /\ [][SortAndGetLayout]_vars

(***************************************************************************)
(* calc_point_value_in_boundaries on its own                               *)
(***************************************************************************)

\* Positions 0.00 .. ClampGrid/100 and amounts up to ClampGrid + 2 either way.
ClampGrid == 10

ClampInit ==
    /\ host \in {TwoCol}
    /\ settings = [resize_mode |-> "directional", greedy_pane |-> FALSE, resize_amount |-> 3]
    /\ last_invalid_mode = None
    /\ steps = 0
    /\ resizes = <<>>
    /\ \E v, lo, hi \in 0..ClampGrid : \E a \in (-(ClampGrid + 2))..(ClampGrid + 2) :
           /\ lo < hi
           /\ obs = [Idle EXCEPT !.value = Pos(v), !.amount = a, !.sign = 1,
                                 !.min = Pos(lo), !.max = Pos(hi)]

\* src/Pain.py:815-820: the call of calc_point_value_in_boundaries.
CalcPointValueInBoundaries ==
    /\ obs.cmd = "none"
    /\ obs' = [obs EXCEPT !.cmd = "calc",
                          !.new_value = calc_point_value_in_boundaries(
                                            obs.value, obs.amount * obs.sign, obs.min, obs.max)]
    /\ UNCHANGED <<host, settings, last_invalid_mode, steps, resizes>>

ClampSpec == ClampInit /\ [][CalcPointValueInBoundaries]_vars

(***************************************************************************)
(* Resize commands while the user rewrites resize_mode                     *)
(***************************************************************************)

\* Resize commands in one run of ModeSpec.
MaxModeSteps == 3

\* Values of resize_mode: the valid ones and the two typos of
\* src/tests/test_validation.py.
ModeStrings == VALID_RESIZE_MODES \cup {"growht", "direchtional"}

ModeInit ==
    /\ host \in {TwoCol, ThreeCol}
    /\ settings = [resize_mode |-> "directional", greedy_pane |-> FALSE, resize_amount |-> 3]
    /\ last_invalid_mode = None
    /\ obs = Idle
    /\ steps = 0
    /\ resizes = <<>>

\* The user writes a value of resize_mode into Pain.sublime-settings.
WriteResizeMode ==
    /\ \E m \in ModeStrings : settings' = [settings EXCEPT !.resize_mode = m]
    /\ UNCHANGED <<host, last_invalid_mode, obs, steps, resizes>>

\* src/Pain.py:715-732: PainResizeCommand.run, up to MaxModeSteps times.
ModeResize(dimension, direction) ==
    /\ steps < MaxModeSteps
    /\ Run(dimension, direction)
    /\ resizes' = Append(resizes, [mode |-> obs'.mode, alert |-> obs'.alert])

ModeNext ==
    \/ WriteResizeMode
    \/ \E r \in {"increase", "decrease"} : ModeResize(WIDTH, r)

ModeSpec == ModeInit /\ [][ModeNext]_vars

(***************************************************************************)
(* get_greedy_points on its own                                            *)
(***************************************************************************)

\* Positions within GreedyGrid/100 of 0.0 and of 1.0, amounts up to GreedyGrid + 1.
GreedyGrid == 3

GreedyPositions == {Pos(h) : h \in (0..GreedyGrid) \cup ((100 - GreedyGrid)..100)}

\* Ascending separator lists from 0.0 to 1.0 with two or three separators between.
GreedyPoints ==
    {<<0, a, b, One>> : a, b \in GreedyPositions} \cup
    {<<0, a, b, c, One>> : a, b, c \in GreedyPositions}

GreedyInit ==
    /\ host \in {TwoCol}
    /\ settings = [resize_mode |-> "growth", greedy_pane |-> TRUE, resize_amount |-> 3]
    /\ last_invalid_mode = None
    /\ steps = 0
    /\ resizes = <<>>
    /\ \E points \in GreedyPoints :
       \E point_index \in 1..(Len(points) - 2) :
       \E v \in GreedyPositions \ {0, One} :
       \E a \in ((-(GreedyGrid + 1))..(GreedyGrid + 1)) \ {0} :
           /\ \A i \in 1..(Len(points) - 1) : points[i] <= points[i + 1]
           /\ obs = [Idle EXCEPT !.read = create_layout(0, points, <<0, One>>, <<>>),
                                 !.dimension = WIDTH, !.point_index = point_index,
                                 !.new_value = v, !.amount = a, !.sign = 1]

\* src/Pain.py:822-828: the call of get_greedy_points.
GetGreedyPoints ==
    /\ obs.cmd = "none"
    /\ obs' = [obs EXCEPT !.cmd = "greedy",
                          !.moved = set_points(obs.read, WIDTH,
                                        get_greedy_points(obs.point_index, obs.read.cols,
                                                          obs.new_value, obs.amount * obs.sign))]
    /\ UNCHANGED <<host, settings, last_invalid_mode, steps, resizes>>

GreedySpec == GreedyInit /\ [][GetGreedyPoints]_vars

(***************************************************************************)
(* EqualSpec: equalize in binary64 on one row or one column of panes       *)
(***************************************************************************)

\* Separators on the long axis of the strips of EqualSpec.
MaxAxis == 50

\* n separators, unevenly spaced: 0, 0.02, 0.04, ... and 1.
strip_points(n) == [i \in 1..n |-> IF i = n THEN One ELSE (i - 1) * 2 * Unit]

\* One row (dim = WIDTH) or one column (dim = HEIGHT) of n - 1 panes.
Strip(dim, n) ==
    IF dim = WIDTH
    THEN create_layout(0, strip_points(n), <<0, One>>, [k \in 1..(n - 1) |-> <<k - 1, 0, k, 1>>])
    ELSE create_layout(0, <<0, One>>, strip_points(n), [k \in 1..(n - 1) |-> <<0, k - 1, 1, k>>])

EqualInit ==
    /\ \E dim \in {WIDTH, HEIGHT} : \E n \in 2..MaxAxis : host = Strip(dim, n)
    /\ settings = [resize_mode |-> "directional", greedy_pane |-> FALSE, resize_amount |-> 3]
    /\ last_invalid_mode = None
    /\ obs = Idle
    /\ steps = 0
    /\ resizes = <<>>

\* src/Pain.py:733-750: PainResizeCommand.run(dimension, "equal"), the
\* positions it hands to the host as the floats Python computes.
EqualizeFloat(dimension) ==
    /\ obs.cmd = "none"
    /\ host' = equalize_float(host, dimension)
    /\ obs' = sorted_seen("equalize", dimension, host, sort_and_get_layout(host))
    /\ steps' = steps + 1
    /\ UNCHANGED <<settings, last_invalid_mode, resizes>>

EqualNext == \E d \in {WIDTH, HEIGHT, "all"} : EqualizeFloat(d)

EqualSpec == EqualInit /\ [][EqualNext]_vars

(***************************************************************************)
(* SelectSpec: the two separator selectors on any cell of any axis         *)
(***************************************************************************)

\* Separators on the axis of SelectSpec.
MaxPoints == 7

\* A cell from separator p1 to separator p2 of the dimension.
span_cell(dim, p1, p2) == IF dim = WIDTH THEN <<p1, 0, p2, 1>> ELSE <<0, p1, 1, p2>>

\* obs is here the call: its arguments (cell, points, dimension, given, the
\* sign passed in) and, once made, its result (point_index, sign) and the
\* sign the mode's sign function gives for the cell (mode_sign).
SelectInit ==
    /\ \E dim \in {WIDTH, HEIGHT} : \E n \in 2..MaxPoints :
       \E p1 \in 0..(n - 2) : \E p2 \in (p1 + 1)..(n - 1) : \E s \in {1, -1} :
           obs = [cmd |-> "none", dimension |-> dim, points |-> strip_points(n),
                  cell |-> span_cell(dim, p1, p2), given |-> s,
                  mode_sign |-> 0, point_index |-> -1, sign |-> 0]
    /\ host = NoLayout
    /\ settings = [resize_mode |-> "directional", greedy_pane |-> FALSE, resize_amount |-> 3]
    /\ last_invalid_mode = None
    /\ steps = 0
    /\ resizes = <<>>

\* The call made: mode_sign and the selector's result sel noted.
selected(call, cmd, mode_sign, sel) ==
    [call EXCEPT !.cmd = cmd, !.mode_sign = mode_sign, !.point_index = sel[1], !.sign = sel[2]]

\* src/Pain.py:93-110 and 135-171
GetPointIndexGrowth ==
    /\ obs.cmd = "none"
    /\ obs' = selected(obs, "growth",
                       get_sign_growth(At(obs.cell, get_indices(obs.dimension)[1]), obs.points),
                       get_point_index_growth(obs.cell, obs.points, obs.dimension, obs.given))
    /\ UNCHANGED <<host, settings, last_invalid_mode, steps, resizes>>

\* src/Pain.py:113-129 and 174-204
GetPointIndexDirectional ==
    /\ obs.cmd = "none"
    /\ obs' = selected(obs, "directional",
                       get_sign_directional(At(obs.cell, get_indices(obs.dimension)[1]), obs.points),
                       get_point_index_directional(obs.cell, obs.points, obs.dimension, obs.given))
    /\ UNCHANGED <<host, settings, last_invalid_mode, steps, resizes>>

SelectNext == GetPointIndexGrowth \/ GetPointIndexDirectional

SelectSpec == SelectInit /\ [][SelectNext]_vars

(***************************************************************************)
(* ToggleSpec: PainToggleSettingCommand on any key and any stored value    *)
(***************************************************************************)

\* Toggle commands in one run of ToggleSpec.
MaxToggles == 2

\* Stored values, as [kind, val]; a string is here given whole.
Str(s) == [kind |-> "str", val |-> s]
Bool(b) == [kind |-> "bool", val |-> IF b THEN 1 ELSE 0]
Absent == [kind |-> "absent", val |-> 0]

\* bool(value) in Python: what `not value` negates.
truthy(raw) ==
    CASE raw.kind \in {"bool", "int", "float", "list"} -> raw.val # 0
      [] raw.kind = "str" -> raw.val # ""
      [] raw.kind \in {"inf", "nan"} -> TRUE
      [] OTHER -> FALSE

\* src/Pain.py:629-643: settings().get(setting, default)
get_setting(st, setting, default) == IF st[setting] = Absent THEN default ELSE st[setting]

\* A cycle that goes to growth from every value but growth.
cycle_stored_mode_from_growth(st) ==
    [st EXCEPT !.resize_mode = IF get_setting(st, "resize_mode", Str("directional")) = Str("growth")
                               THEN Str("directional") ELSE Str("growth")]

\* src/Pain.py:669-676 on stored values
cycle_stored_mode(st) ==
    [st EXCEPT !.resize_mode = IF get_setting(st, "resize_mode", Str("directional")) = Str("directional")
                               THEN Str("growth") ELSE Str("directional")]

\* src/Pain.py:658-667 on stored values, any key
toggle_stored_setting(st, setting) ==
    [st EXCEPT ![setting] = Bool(~truthy(get_setting(st, setting, Bool(FALSE))))]

\* src/Pain.py:914-917
toggled(st, setting) ==
    IF setting = "resize_mode" THEN cycle_stored_mode(st) ELSE toggle_stored_setting(st, setting)

\* Keys of Pain.sublime-settings; "word_wrap" stands for any key Pain does not read.
ToggleKeys == {"resize_mode", "greedy_pane", "resize_amount", "word_wrap"}

\* Values found under a key.
StoredModes == {Str("directional"), Str("growth"), Str("growht"), Str(""), Absent,
                Bool(TRUE), [kind |-> "null", val |-> 0]}
StoredFlags == {Bool(TRUE), Bool(FALSE), Absent, Str(""), Str("yes"),
                [kind |-> "int", val |-> 0], [kind |-> "int", val |-> 3],
                [kind |-> "null", val |-> 0]}

\* obs is here the last command: its key (setting), the settings it found
\* (before), how often it called save_settings (saves), and the key and the
\* settings found by the command before it (previous, earlier).
ToggleInit ==
    /\ \E m \in StoredModes : \E g \in StoredFlags : \E w \in StoredFlags :
           settings = [resize_mode |-> m, greedy_pane |-> g,
                       resize_amount |-> [kind |-> "int", val |-> 3], word_wrap |-> w]
    /\ obs = [cmd |-> "none", setting |-> "", before |-> <<>>, saves |-> 0,
              previous |-> "", earlier |-> <<>>]
    /\ host = NoLayout
    /\ last_invalid_mode = None
    /\ steps = 0
    /\ resizes = <<>>

\* src/Pain.py:908-918: PainToggleSettingCommand.run(setting)
ToggleCommand(setting) ==
    /\ steps < MaxToggles
    /\ settings' = toggled(settings, setting)
    /\ obs' = [cmd |-> "toggle", setting |-> setting, before |-> settings, saves |-> 1,
               previous |-> obs.setting, earlier |-> obs.before]
    /\ steps' = steps + 1
    /\ UNCHANGED <<host, last_invalid_mode, resizes>>

ToggleNext == \E k \in ToggleKeys : ToggleCommand(k)

ToggleSpec == ToggleInit /\ [][ToggleNext]_vars

(***************************************************************************)
(* TightSpec: resize where separators lie less than 0.01 apart             *)
(***************************************************************************)

\* Four columns, the inner separators at 0.5, 0.505 and 0.51 (as a mouse
\* leaves them).
Narrow ==
    create_layout(0, <<Pos(0), Pos(50), Pos(50) + Unit \div 2, Pos(51), Pos(100)>>,
                  <<Pos(0), Pos(100)>>,
                  <<<<0, 0, 1, 1>>, <<1, 0, 2, 1>>, <<2, 0, 3, 1>>, <<3, 0, 4, 1>>>>)

TightInit ==
    /\ \E l \in {Narrow, ThreeCol} : \E g \in 0..(Len(l.cells) - 1) :
           host = [l EXCEPT !.active_group = g]
    /\ \E m \in VALID_RESIZE_MODES : \E g \in BOOLEAN : \E a \in ResizeAmounts :
           settings = [resize_mode |-> m, greedy_pane |-> g, resize_amount |-> a]
    /\ last_invalid_mode = None
    /\ obs = Idle
    /\ steps = 0
    /\ resizes = <<>>

TightNext == \E d \in {WIDTH, HEIGHT} : \E r \in {"increase", "decrease"} : Resize(d, r)

TightSpec == TightInit /\ [][TightNext]_vars

(***************************************************************************)
(* DirectionalSpec: sequences of directional resize commands               *)
(***************************************************************************)

\* Resize commands in one run of DirectionalSpec.
MaxMoves == 3

\* Values of resize_amount in DirectionalSpec: the ends of 1..100, the
\* default, and a step longer than any pane of the tilings is wide.
DirectionalAmounts == {1, 3, 60, 100}

\* greedy is the greedy_pane setting, which the commands never change.
DirectionalInit(greedy) ==
    /\ \E l \in InitLayouts : \E g \in 0..(Len(l.cells) - 1) :
           host = [l EXCEPT !.active_group = g]
    /\ \E a \in DirectionalAmounts :
           settings = [resize_mode |-> "directional", greedy_pane |-> greedy,
                       resize_amount |-> a]
    /\ last_invalid_mode = None
    /\ obs = Idle
    /\ steps = 0
    /\ resizes = <<>>

\* src/Pain.py:715-732 with resize_mode directional
DirectionalResize(dimension, direction) ==
    /\ steps < MaxMoves
    /\ settings.resize_mode = "directional"
    /\ Run(dimension, direction)
    /\ UNCHANGED resizes

DirectionalNext ==
    \/ \E d \in {WIDTH, HEIGHT} : \E r \in {"increase", "decrease"} : DirectionalResize(d, r)
    \/ FocusGroup

DirectionalSpec == DirectionalInit(FALSE) /\ [][DirectionalNext]_vars

(***************************************************************************)
(* GreedyOnSpec: sequences of resize commands with greedy_pane on          *)
(***************************************************************************)

\* Four columns on the 0.01 grid, the two in the middle 0.01 wide.
Slats ==
    create_layout(0, <<Pos(0), Pos(50), Pos(51), Pos(52), Pos(100)>>,
                  <<Pos(0), Pos(100)>>,
                  <<<<0, 0, 1, 1>>, <<1, 0, 2, 1>>, <<2, 0, 3, 1>>, <<3, 0, 4, 1>>>>)

\* Values of resize_amount in GreedyOnSpec: steps shorter and longer than the
\* panes of the tilings are wide.
GreedyOnAmounts == {1, 3, 20, 60}

GreedyOnInit ==
    /\ \E l \in InitLayouts \cup {Slats} : \E g \in 0..(Len(l.cells) - 1) :
           host = [l EXCEPT !.active_group = g]
    /\ \E m \in VALID_RESIZE_MODES : \E a \in GreedyOnAmounts :
           settings = [resize_mode |-> m, greedy_pane |-> TRUE, resize_amount |-> a]
    /\ last_invalid_mode = None
    /\ obs = Idle
    /\ steps = 0
    /\ resizes = <<>>

\* src/Pain.py:715-732 with greedy_pane on, in the mode the settings hold
GreedyOnResize(dimension, direction) ==
    /\ steps < MaxMoves
    /\ settings.greedy_pane
    /\ Run(dimension, direction)
    /\ UNCHANGED resizes

GreedyOnNext ==
    \/ \E d \in {WIDTH, HEIGHT} : \E r \in {"increase", "decrease"} : GreedyOnResize(d, r)
    \/ ToggleSetting("resize_mode")
    \/ FocusGroup

GreedyOnSpec == GreedyOnInit /\ [][GreedyOnNext]_vars

(***************************************************************************)
(* TilingSpec: get_point_min_max on the tilings a window can be split into *)
(***************************************************************************)

\* Panes of a window in TilingSpec.
MaxPanes == 5

\* n separators from 0.0 to 1.0 on the 0.01 grid, evenly spread.
spread_points(n) == [i \in 1..n |-> IF i = n THEN One ELSE Pos(((i - 1) * 100) \div (n - 1))]

\* One pane filling the window.
Single == create_layout(0, <<0, One>>, <<0, One>>, <<<<0, 0, 1, 1>>>>)

\* Four panes around a fifth: no separator crosses the whole window.
Pinwheel ==
    create_layout(0, spread_points(4), spread_points(4),
                  <<<<0, 0, 2, 1>>, <<2, 0, 3, 2>>, <<1, 2, 3, 3>>, <<0, 1, 1, 3>>,
                    <<1, 1, 2, 2>>>>)

\* The cell with its two indices along the dimension replaced by lo and hi.
with_span(cell, dimension, lo, hi) ==
    SetAt(SetAt(cell, get_indices(dimension)[1], lo), get_indices(dimension)[2], hi)

\* The cell after a separator was inserted behind index j of the dimension.
shifted(cell, dimension, j) ==
    with_span(cell, dimension,
              At(cell, get_indices(dimension)[1])
                  + (IF At(cell, get_indices(dimension)[1]) > j THEN 1 ELSE 0),
              At(cell, get_indices(dimension)[2])
                  + (IF At(cell, get_indices(dimension)[2]) > j THEN 1 ELSE 0))

\* The cells with cell k (0-based) cut in two at index j of the dimension; the
\* second half becomes the last group.
cut(cells, k, dimension, j) ==
    Append(SetAt(cells, k, with_span(At(cells, k), dimension,
                                     At(At(cells, k), get_indices(dimension)[1]), j)),
           with_span(At(cells, k), dimension, j,
                     At(At(cells, k), get_indices(dimension)[2])))

\* The layout with n separators, evenly spread, along the dimension.
respread(layout, dimension, n) == set_points(layout, dimension, spread_points(n))

TilingInit ==
    /\ host \in {Single, Pinwheel}
    /\ settings = [resize_mode |-> "growth", greedy_pane |-> FALSE, resize_amount |-> 3]
    /\ last_invalid_mode = None
    /\ obs = Idle
    /\ steps = 0
    /\ resizes = <<>>

\* The host splits pane k along a new separator behind index j.
SplitPane(k, dimension, j) ==
    /\ Len(host.cells) < MaxPanes
    /\ k \in 0..(Len(host.cells) - 1)
    /\ At(At(host.cells, k), get_indices(dimension)[1]) <= j
    /\ j < At(At(host.cells, k), get_indices(dimension)[2])
    /\ host' = respread([host EXCEPT !.cells =
                             cut([i \in 1..Len(host.cells) |->
                                      shifted(host.cells[i], dimension, j)],
                                 k, dimension, j + 1)],
                        dimension, Len(get_points(host, dimension)) + 1)
    /\ obs' = Idle
    /\ UNCHANGED <<settings, last_invalid_mode, steps, resizes>>

\* The host splits pane k along the separator j that ends at its edge.
CutPane(k, dimension, j) ==
    /\ Len(host.cells) < MaxPanes
    /\ k \in 0..(Len(host.cells) - 1)
    /\ At(At(host.cells, k), get_indices(dimension)[1]) < j
    /\ j < At(At(host.cells, k), get_indices(dimension)[2])
    /\ host' = [host EXCEPT !.cells = cut(host.cells, k, dimension, j)]
    /\ obs' = Idle
    /\ UNCHANGED <<settings, last_invalid_mode, steps, resizes>>

\* src/Pain.py:804-810, the separator sel = <<point_index, sign>> chosen.
bounds_selected(dimension, cells, active_cell, sel) ==
    [cmd |-> "bounds", dimension |-> dimension, cells |-> cells, cell |-> active_cell,
     point_index |-> sel[1], sign |-> sel[2],
     result |-> get_point_min_max(active_cell, cells, sel[1], dimension, sel[2])]

\* src/Pain.py:760-810 on the layout sorted (sg).
bounds_sorted(dimension, sg, active_cell) ==
    bounds_selected(dimension, sg.cells, active_cell,
        select_point("growth", active_cell, get_points(sg.sorted_layout, dimension),
                     dimension, get_indices(dimension)[1]))

\* src/Pain.py:760-763
bounds_read(dimension, read, sg) ==
    bounds_sorted(dimension, sg, At(sg.cells, read.active_group))

\* src/Pain.py:760-810: a growth resize as far as the boundary indices.
GetPointMinMax(dimension) ==
    /\ obs' = bounds_read(dimension, host, sort_and_get_layout(host))
    /\ obs'.point_index >= 0
    /\ UNCHANGED <<host, settings, last_invalid_mode, steps, resizes>>

TilingNext ==
    \/ \E d \in {WIDTH, HEIGHT} : \E k \in 0..(MaxPanes - 1) : \E j \in 0..MaxPanes :
           SplitPane(k, d, j)
    \/ \E d \in {WIDTH, HEIGHT} : \E k \in 0..(MaxPanes - 1) : \E j \in 0..MaxPanes :
           CutPane(k, d, j)
    \/ \E d \in {WIDTH, HEIGHT} : GetPointMinMax(d)
    \/ FocusGroup

TilingSpec == TilingInit /\ [][TilingNext]_vars

(***************************************************************************)
(* AmountSpec: get_resize_amount on any value of the setting               *)
(***************************************************************************)

\* Integers and floats stored under resize_amount lie within -MaxRaw..MaxRaw.
MaxRaw == 102

\* Strings stored under resize_amount have at most MaxChars characters.
MaxChars == 3

RawChars == {"0", "1", "7", "-", "+", " ", "_", ".", "a"}

RawStrings == UNION {[1..n -> RawChars] : n \in 0..MaxChars}

RawValues ==
    {[kind |-> "int", val |-> n] : n \in (-MaxRaw)..MaxRaw}
    \cup {[kind |-> "float", val |-> t] : t \in (-10 * MaxRaw)..(10 * MaxRaw)}
    \cup {[kind |-> "bool", val |-> b] : b \in {0, 1}}
    \cup {[kind |-> "str", val |-> s] : s \in RawStrings}
    \cup {[kind |-> k, val |-> 0] : k \in {"inf", "nan", "null", "list", "absent"}}

\* obs is here the call: the value stored (raw) and, once made, its outcome.
AmountInit ==
    /\ \E raw \in RawValues : obs = [cmd |-> "none", raw |-> raw, raises |-> "", value |-> 0]
    /\ host = NoLayout
    /\ settings = [resize_mode |-> "directional", greedy_pane |-> FALSE, resize_amount |-> 3]
    /\ last_invalid_mode = None
    /\ steps = 0
    /\ resizes = <<>>

\* The outcome r of the call noted.
amount_read(call, r) == [call EXCEPT !.cmd = "amount", !.raises = r.raises, !.value = r.value]

\* src/Pain.py:698-713: PainResizeCommand.get_resize_amount
GetResizeAmount ==
    /\ obs.cmd = "none"
    /\ obs' = amount_read(obs, get_raw_resize_amount(obs.raw))
    /\ UNCHANGED <<host, settings, last_invalid_mode, steps, resizes>>

AmountSpec == AmountInit /\ [][GetResizeAmount]_vars

(***************************************************************************)
(* Properties                                                              *)
(***************************************************************************)

\* A command (or sort_and_get_layout alone) has just run.
Ran == obs.cmd # "none"

Ascending(points) == \A i \in 1..(Len(points) - 1) : points[i] <= points[i + 1]
StrictlyAscending(points) == \A i \in 1..(Len(points) - 1) : points[i] < points[i + 1]
CellsAscending(cells) == \A i \in 1..(Len(cells) - 1) : CellLess(cells[i], cells[i + 1])
Distinct(points) == \A i, j \in 1..Len(points) : points[i] = points[j] => i = j

\* C1: sort_layout is idempotent: applied to a layout that sort_layout has
\* returned, it returns that layout again (cols, rows, cells in their order and
\* active_group).
C1_SortIdempotent == obs.cmd = "sort" => sort_layout(host) = host

\* A layout that was listed out of order has been sorted.
C1_Witness ==
    /\ obs.cmd = "sort"
    /\ ~Ascending(obs.read.cols)
    /\ ~Ascending(obs.read.rows)
    /\ obs.read.cells # host.cells

\* C2 as stated: a layout whose cols and rows are ascending is returned
\* unchanged by sort_layout, cell order and active_group included.
C2_AscendingUnchanged ==
    (obs.cmd = "sort" /\ Ascending(obs.read.cols) /\ Ascending(obs.read.rows))
        => host = obs.read

\* C2 amended: a layout whose cols and rows are ascending and whose cell list is
\* in strictly ascending lexicographic order is returned unchanged by sort_layout.
C2_SortedUnchanged ==
    (/\ obs.cmd = "sort"
     /\ Ascending(obs.read.cols)
     /\ Ascending(obs.read.rows)
     /\ CellsAscending(obs.read.cells))
        => host = obs.read

\* sort_layout was given a sorted layout of three panes, the last one active.
C2_Witness ==
    /\ obs.cmd = "sort"
    /\ Ascending(obs.read.cols)
    /\ Ascending(obs.read.rows)
    /\ CellsAscending(obs.read.cells)
    /\ Len(obs.read.cells) >= 3
    /\ obs.read.active_group = 2

\* The cells of layout `in`, relabelled to `cells` (same order), span in `out`
\* the positions they spanned in `in`.
KeepsSeparators(in, out, cells) ==
    \A k \in 1..Len(in.cells) :
        /\ At(out.cols, At(cells[k], X_1)) = At(in.cols, At(in.cells[k], X_1))
        /\ At(out.cols, At(cells[k], X_2)) = At(in.cols, At(in.cells[k], X_2))
        /\ At(out.rows, At(cells[k], Y_1)) = At(in.rows, At(in.cells[k], Y_1))
        /\ At(out.rows, At(cells[k], Y_2)) = At(in.rows, At(in.cells[k], Y_2))

DistinctSeparators(layout) == Distinct(layout.cols) /\ Distinct(layout.rows)

\* C3: sort_layout keeps every cell on the separators it was on: for a layout
\* with distinct positions on each axis, each relabelled cell spans the same
\* positions in the sorted layout as it did before, both where a command
\* normalizes the layout it reads and where resize normalizes the layout in
\* which it has moved a separator.
C3_CellsKeepSeparators ==
    Ran =>
        /\ DistinctSeparators(obs.read)
              => KeepsSeparators(obs.read, obs.normalized, obs.cells)
        /\ (obs.applied /\ DistinctSeparators(obs.moved))
              => KeepsSeparators(obs.moved, host, obs.moved_cells)

\* The cell at active_group of `out` is the relabelled active cell of `in`.
ActiveStable(in, out, cells) == At(out.cells, out.active_group) = At(cells, in.active_group)

\* C4: sort_layout keeps the active cell: the active_group it returns indexes
\* the relabelled image of the active cell of the layout it was given.
C4_ActiveCellStable ==
    Ran =>
        /\ ActiveStable(obs.read, obs.normalized, obs.cells)
        /\ obs.applied => ActiveStable(obs.moved, host, obs.moved_cells)

\* Every cell of the layout has x1 < x2 and y1 < y2 and a strictly positive size.
NonDegenerate(layout) ==
    \A k \in 1..Len(layout.cells) :
        /\ At(layout.cells[k], X_1) < At(layout.cells[k], X_2)
        /\ At(layout.cells[k], Y_1) < At(layout.cells[k], Y_2)
        /\ At(layout.cols, At(layout.cells[k], X_1)) < At(layout.cols, At(layout.cells[k], X_2))
        /\ At(layout.rows, At(layout.cells[k], Y_1)) < At(layout.rows, At(layout.cells[k], Y_2))

\* C5: no pane ever becomes degenerate: after any sequence of resize commands
\* from a well-formed tiling, every cell of the host's layout has x1 < x2,
\* y1 < y2, cols[x1] < cols[x2] and rows[y1] < rows[y2].
C5_NoPaneDegenerate == NonDegenerate(host)

\* Every cell index of the layout is an index of its axis.
IndicesInRange(layout) ==
    \A k \in 1..Len(layout.cells) :
        /\ At(layout.cells[k], X_1) \in 0..(Len(layout.cols) - 1)
        /\ At(layout.cells[k], X_2) \in 0..(Len(layout.cols) - 1)
        /\ At(layout.cells[k], Y_1) \in 0..(Len(layout.rows) - 1)
        /\ At(layout.cells[k], Y_2) \in 0..(Len(layout.rows) - 1)

\* cols and rows of the layout are ascending from 0.0 to 1.0, as many as in
\* `read`, and the cells index them.
FrameKept(read, layout) ==
    /\ Len(layout.cols) = Len(read.cols)
    /\ Len(layout.rows) = Len(read.rows)
    /\ Ascending(layout.cols) /\ Ascending(layout.rows)
    /\ layout.cols[1] = 0 /\ layout.cols[Len(layout.cols)] = One
    /\ layout.rows[1] = 0 /\ layout.rows[Len(layout.rows)] = One
    /\ IndicesInRange(layout)

\* C6: after any sequence of resize and equalize commands, every layout handed
\* to the host (the normalized one and the final one) has cols and rows of
\* unchanged length, ascending, from 0.0 to 1.0, and cell indices within range.
C6_FrameKept ==
    /\ FrameKept(host, host)
    /\ obs.cmd \in {"resize", "equalize"} =>
          /\ FrameKept(obs.read, obs.normalized)
          /\ FrameKept(obs.read, host)

\* C6, with the positions equalize computes as floats: the layout equalize
\* hands to the host has cols and rows of unchanged length, each axis it was
\* asked for is ascending from 0.0 to 1.0, and the cell indices are in range.
C6_FrameKeptFloat ==
    \A dim \in {WIDTH, HEIGHT} :
        (obs.cmd = "equalize" /\ obs.dimension \in {dim, "all"}) =>
            /\ Len(get_points(host, dim)) = Len(get_points(obs.read, dim))
            /\ \A i \in 1..(Len(get_points(host, dim)) - 1) :
                   ~float_less(get_points(host, dim)[i + 1], get_points(host, dim)[i])
            /\ get_points(host, dim)[1] = Zero64
            /\ get_points(host, dim)[Len(get_points(host, dim))] = One64
            /\ IndicesInRange(host)

\* A resize moved a separator past another one, and an equalize changed a layout.
C6_Witness ==
    \/ obs.cmd = "resize" /\ obs.applied /\ ~Ascending(get_points(obs.moved, obs.dimension))
    \/ obs.cmd = "equalize" /\ host # obs.read /\ Len(host.cols) = 5

\* C7: calc_point_value_in_boundaries returns a value strictly inside
\* (point_min, point_max) for every value and amount on the 0.01 grid, whenever
\* point_max - point_min > 0.02.
C7_ClampStrictlyInside ==
    (obs.cmd = "calc" /\ obs.max - obs.min > Pos(2))
        => (obs.min < obs.new_value /\ obs.new_value < obs.max)

\* The unclamped value was at or beyond point_max and came back as point_max - 0.01.
C7_Witness ==
    /\ obs.cmd = "calc"
    /\ obs.max - obs.min > Pos(2)
    /\ obs.value + Pos(obs.amount) >= obs.max
    /\ obs.new_value = obs.max - Pos(1)

\* The position of the selected separator before and after the move.
SelectedBefore == At(get_points(obs.normalized, obs.dimension), obs.point_index)
SelectedAfter == At(get_points(obs.moved, obs.dimension), obs.point_index)

\* C8: directional consistency: in directional mode, for an active pane that
\* does not span the axis, the sign is +1, an increase never moves the selected
\* separator toward the low-index end and a decrease never moves it toward the
\* high-index end.
C8_DirectionalConsistent ==
    (obs.cmd = "resize" /\ obs.mode = "directional" /\ obs.point_index >= 0 /\ ~obs.raised)
        => /\ obs.sign = 1
           /\ obs.amount > 0 => SelectedAfter >= SelectedBefore
           /\ obs.amount < 0 => SelectedAfter <= SelectedBefore

\* Extent of a cell along the dimension: far separator minus near separator.
Extent(layout, cell, dimension) ==
    At(get_points(layout, dimension), At(cell, At(get_indices(dimension), 1)))
        - At(get_points(layout, dimension), At(cell, At(get_indices(dimension), 0)))

ExtentBefore == Extent(obs.normalized, At(obs.cells, obs.read.active_group), obs.dimension)
ExtentAfter == Extent(host, At(obs.final_cells, obs.read.active_group), obs.dimension)

\* C9: in growth mode, from a well-formed layout and for an active pane that
\* does not span the axis, an increase never reduces the active pane's extent and
\* strictly enlarges it when the move is applied and changes the layout; a
\* decrease never enlarges it.
C9_GrowthExtent ==
    (/\ obs.cmd = "resize" /\ obs.mode = "growth" /\ obs.point_index >= 0
     /\ NonDegenerate(obs.read)
     /\ StrictlyAscending(obs.read.cols) /\ StrictlyAscending(obs.read.rows))
        => /\ obs.amount > 0 => ExtentAfter >= ExtentBefore
           /\ (obs.amount > 0 /\ obs.applied /\ obs.moved # obs.normalized)
                 => ExtentAfter > ExtentBefore
           /\ obs.amount < 0 => ExtentAfter <= ExtentBefore

\* A growth increase on an axis of three separators, the active pane between
\* separators `near` and near + 1.
GrowthIncreaseOfPane(near) ==
    /\ obs.cmd = "resize" /\ obs.mode = "growth" /\ obs.amount > 0
    /\ Len(get_points(obs.normalized, obs.dimension)) = 3
    /\ At(At(obs.cells, obs.read.active_group), At(get_indices(obs.dimension), 0)) = near
    /\ At(At(obs.cells, obs.read.active_group), At(get_indices(obs.dimension), 1)) = near + 1

RECURSIVE PushedOutside(_, _, _, _, _)
PushedOutside(points, prev, i, step, amount) ==
    IF i < 0 \/ i >= Len(points) THEN FALSE
    ELSE IF (step = 1 /\ At(points, i) <= prev) \/ (step = -1 /\ At(points, i) >= prev)
         THEN \/ prev + Pos(amount) <= 0
              \/ prev + Pos(amount) >= One
              \/ PushedOutside(points, prev + Pos(amount), i + step, step, amount)
         ELSE PushedOutside(points, At(points, i), i + step, step, amount)

\* The cascade of the call observed would push a neighbour outside (0, 1).
CascadeLeavesRange ==
    PushedOutside(obs.read.cols, obs.new_value,
                  obs.point_index + (IF At(obs.read.cols, obs.point_index) < obs.new_value
                                     THEN 1 ELSE -1),
                  IF At(obs.read.cols, obs.point_index) < obs.new_value THEN 1 ELSE -1,
                  obs.amount)

\* C11: greedy cascade atomicity: get_greedy_points returns a list equal to its
\* input points, the primary separator included, whenever a pushed neighbour
\* would receive a value outside (0, 1); the list it was given stays as it was.
C11_CascadeAtomic ==
    (obs.cmd = "greedy" /\ CascadeLeavesRange) => obs.moved.cols = obs.read.cols

\* A cascade that pushed one neighbour and failed on the next.
C11_Witness ==
    /\ obs.cmd = "greedy"
    /\ CascadeLeavesRange
    /\ obs.new_value # At(obs.read.cols, obs.point_index)
    /\ Len(obs.read.cols) = 5
    /\ obs.point_index = 1
    /\ At(obs.read.cols, 2) <= obs.new_value
    /\ obs.new_value + Pos(obs.amount) < One
    /\ At(obs.read.cols, 3) <= obs.new_value + Pos(obs.amount)

\* The resize calls so far that called sublime.error_message naming mode m.
ReportsOf(m) == {k \in 1..Len(resizes) : resizes[k].alert /\ resizes[k].mode = m}

\* C12: error debounce: over a sequence of resize commands none of which reads a
\* valid mode, sublime.error_message is called at most once for each distinct
\* invalid mode string, however the strings are interleaved.
C12_ReportedOncePerString ==
    (\A k \in 1..Len(resizes) : resizes[k].mode \notin VALID_RESIZE_MODES)
        => \A k \in 1..Len(resizes) : Cardinality(ReportsOf(resizes[k].mode)) <= 1

\* C13: a resize that reads a valid mode leaves _last_invalid_mode clear, and
\* the resize after it that reads an invalid mode reports it, whether or not
\* that string had been reported before.
C13_ValidClearsFlag ==
    /\ (obs.cmd = "resize" /\ obs.mode \in VALID_RESIZE_MODES) => last_invalid_mode = None
    /\ \A k \in 1..(Len(resizes) - 1) :
          (/\ resizes[k].mode \in VALID_RESIZE_MODES
           /\ resizes[k + 1].mode \notin VALID_RESIZE_MODES) => resizes[k + 1].alert

\* The same invalid string reported, a valid resize, and the string reported again.
C13_Witness ==
    /\ Len(resizes) = 3
    /\ resizes[1].mode \notin VALID_RESIZE_MODES /\ resizes[1].alert
    /\ resizes[2].mode \in VALID_RESIZE_MODES
    /\ resizes[3] = resizes[1]

C15_InvalidModeNoMutation ==
    (obs.cmd = "resize" /\ obs.mode \notin VALID_RESIZE_MODES)
        => /\ obs.set_layouts = 1
           /\ host = obs.normalized
           /\ obs.normalized = sort_layout(obs.read)
           /\ host.cols = obs.read.cols /\ host.rows = obs.read.rows
           /\ obs.relocations = <<>>
           /\ ~obs.applied

\* An unrecognized mode read from a layout that an earlier resize had changed.
C15_Witness ==
    /\ obs.cmd = "resize" /\ obs.mode \notin VALID_RESIZE_MODES
    /\ steps >= 2
    /\ host.cols \notin {l.cols : l \in InitLayouts}

\* The separator positions the last equalize set on an axis it was asked for.
Equalized(dim) == obs.cmd = "equalize" /\ obs.dimension \in {dim, "all"}

\* C16 (exact arithmetic): after equalize, the N separators of each requested
\* axis are at i/(N-1), i = 0..N-1, whatever they were before; so an
\* equalized axis is left as it is, and so is the axis [0, 1].
C16_EqualizedExact ==
    \A dim \in {WIDTH, HEIGHT} :
        Equalized(dim) =>
            LET before == get_points(obs.read, dim)
                after == get_points(host, dim)
            IN  /\ Len(after) = Len(before)
                /\ \A i \in 1..Len(after) : after[i] * (Len(after) - 1) = (i - 1) * One
                /\ (\A i \in 1..Len(before) : before[i] * (Len(before) - 1) = (i - 1) * One)
                       => after = before
                /\ before = <<0, One>> => after = before

\* C16: after equalize, the N separators of each requested axis are the
\* floats i/(N-1), i = 0..N-1: the first is 0.0, the last is 1.0, and each
\* is the float nearest to i/(N-1).
C16_EqualizedFloat ==
    \A dim \in {WIDTH, HEIGHT} :
        Equalized(dim) =>
            LET after == get_points(host, dim)
            IN  /\ Len(after) = Len(get_points(obs.read, dim))
                /\ after[1] = Zero64
                /\ after[Len(after)] = One64
                /\ \A i \in 1..Len(after) : after[i] = float_div(i - 1, Len(after) - 1)

\* C17: equalize on one axis leaves the other axis, the cell list (content
\* and order) and the active group of the layout it read as they were, and
\* equalize on both axes leaves the cell list and the active group.
C17_EqualizeKeepsRest ==
    obs.cmd = "equalize" =>
        /\ host.cells = obs.read.cells
        /\ host.active_group = obs.read.active_group
        /\ obs.dimension = WIDTH => host.rows = obs.read.rows
        /\ obs.dimension = HEIGHT => host.cols = obs.read.cols

\* The cell's near (left/top) and far (right/bottom) separator on a dimension.
Near(cell, dimension) == IF dimension = WIDTH THEN cell[1] ELSE cell[2]
Far(cell, dimension) == IF dimension = WIDTH THEN cell[3] ELSE cell[4]

\* The cell runs from the first separator of the axis to the last.
FullSpan(cell, points, dimension) ==
    Near(cell, dimension) = 0 /\ Far(cell, dimension) = Len(points) - 1

\* C18: when the active cell spans the whole axis, the selector of either
\* mode returns index -1 with sign 0, and the resize leaves every separator
\* of both axes where it was (greedy on or off, increase or decrease).
C18_FullSpanUnmoved ==
    (/\ obs.cmd = "resize"
     /\ obs.mode \in VALID_RESIZE_MODES
     /\ FullSpan(get_active_cell(obs.normalized),
                 get_points(obs.normalized, obs.dimension), obs.dimension))
        => /\ obs.point_index = -1
           /\ obs.sign = 0
           /\ ~obs.applied
           /\ host.cols = obs.read.cols
           /\ host.rows = obs.read.rows

\* A growth-mode, greedy, decreasing resize of the width of a pane that spans
\* three column separators.
C18_Witness ==
    /\ obs.cmd = "resize" /\ obs.mode = "growth" /\ obs.greedy /\ obs.amount < 0
    /\ obs.dimension = WIDTH
    /\ Len(obs.normalized.cols) = 3
    /\ FullSpan(get_active_cell(obs.normalized), obs.normalized.cols, WIDTH)

\* +1 for a near index k <= n/2 - 1 on an axis of n separators, -1 otherwise.
GrowthSign(k, n) == IF k + 1 <= n \div 2 THEN 1 ELSE -1

\* C19: for a cell that does not span the axis, the growth sign is +1 exactly
\* when its near index <= len/2 - 1; the growth selector returns the far
\* boundary for sign +1 and the near one for sign -1 with the sign unchanged,
\* except that when this boundary is index 0 or the last index it returns the
\* other boundary with sign -1 * (growth sign of that other boundary).
C19_GrowthSelection ==
    (obs.cmd = "growth" /\ ~FullSpan(obs.cell, obs.points, obs.dimension)) =>
        LET n == Len(obs.points)
            chosen == IF obs.given = 1 THEN Far(obs.cell, obs.dimension)
                      ELSE Near(obs.cell, obs.dimension)
            other == IF obs.given = 1 THEN Near(obs.cell, obs.dimension)
                     ELSE Far(obs.cell, obs.dimension)
        IN  /\ obs.mode_sign = GrowthSign(Near(obs.cell, obs.dimension), n)
            /\ IF chosen = 0 \/ chosen = n - 1
               THEN obs.point_index = other /\ obs.sign = (-1) * GrowthSign(other, n)
               ELSE obs.point_index = chosen /\ obs.sign = obs.given

\* The far boundary of a cell in the left half is the last separator: the
\* selector returned the near one and turned the sign.
C19_Witness ==
    /\ obs.cmd = "growth" /\ obs.given = 1 /\ Len(obs.points) = MaxPoints
    /\ Far(obs.cell, obs.dimension) = MaxPoints - 1
    /\ obs.point_index = Near(obs.cell, obs.dimension)
    /\ obs.point_index > 0
    /\ obs.sign = -1

\* C20: for a cell that does not span the axis, the directional selector
\* returns the far boundary, or the near one when the far boundary is the
\* last index, and the sign it was given; the directional sign is +1.
C20_DirectionalSelection ==
    (obs.cmd = "directional" /\ ~FullSpan(obs.cell, obs.points, obs.dimension)) =>
        /\ obs.mode_sign = 1
        /\ obs.sign = obs.given
        /\ obs.point_index = IF Far(obs.cell, obs.dimension) = Len(obs.points) - 1
                             THEN Near(obs.cell, obs.dimension)
                             ELSE Far(obs.cell, obs.dimension)

\* A cell that ends at the last separator: the selector fell back to its near one.
C20_Witness ==
    /\ obs.cmd = "directional" /\ Len(obs.points) = MaxPoints
    /\ Far(obs.cell, obs.dimension) = MaxPoints - 1
    /\ obs.point_index = Near(obs.cell, obs.dimension)
    /\ obs.point_index > 0
    /\ obs.sign = obs.given

\* x truncated toward zero, then clamped to 1..100, for x given in tenths.
TruncatedAndClamped(tenths) ==
    CHOOSE v \in 1..100 :
        \/ tenths < 10 /\ v = 1
        \/ tenths >= 1010 /\ v = 100
        \/ tenths >= 10 /\ tenths < 1010 /\ 10 * v <= tenths /\ tenths < 10 * (v + 1)

\* C21: whatever is stored under resize_amount, get_resize_amount returns (the
\* setting is never rejected) an integer in 1..100: a number truncated toward
\* zero and clamped, and 3 for a value that is no number or is absent.
C21_AmountAlwaysInRange ==
    obs.cmd = "amount" =>
        /\ obs.raises = ""
        /\ obs.value \in 1..100
        /\ obs.raw.kind = "int" => obs.value = TruncatedAndClamped(10 * obs.raw.val)
        /\ obs.raw.kind = "float" => obs.value = TruncatedAndClamped(obs.raw.val)
        /\ obs.raw.kind \in {"nan", "null", "list", "absent"} => obs.value = 3

\* C21 for every stored value but an infinite float.
C21_FiniteAmountInRange ==
    (obs.cmd = "amount" /\ obs.raw.kind # "inf") =>
        /\ obs.raises = ""
        /\ obs.value \in 1..100
        /\ obs.raw.kind = "int" => obs.value = TruncatedAndClamped(10 * obs.raw.val)
        /\ obs.raw.kind = "float" => obs.value = TruncatedAndClamped(obs.raw.val)
        /\ obs.raw.kind \in {"nan", "null", "list", "absent"} => obs.value = 3

\* The two valid modes, as stored.
StoredValid == {Str(m) : m \in VALID_RESIZE_MODES}

\* C22: the toggle command on resize_mode stores growth when the mode was
\* directional (the default) and directional for any other stored value, so
\* the mode is valid afterwards and two cycles from a valid mode restore it;
\* on any other key it stores the boolean negation of the value found (absent
\* counts as false) and leaves the other keys; each command saves once.
C22_ToggleCycles ==
    obs.cmd = "toggle" =>
        /\ obs.saves = 1
        /\ \A k \in ToggleKeys \ {obs.setting} : settings[k] = obs.before[k]
        /\ obs.setting = "resize_mode" =>
              /\ settings.resize_mode \in StoredValid
              /\ settings.resize_mode = Str("growth")
                     <=> obs.before.resize_mode \in {Str("directional"), Absent}
              /\ (obs.previous = "resize_mode" /\ obs.earlier.resize_mode \in StoredValid)
                     => settings.resize_mode = obs.earlier.resize_mode
        /\ obs.setting # "resize_mode" =>
              /\ settings[obs.setting].kind = "bool"
              /\ obs.before[obs.setting] \in {Bool(FALSE), Absent} => settings[obs.setting] = Bool(TRUE)
              /\ obs.before[obs.setting] = Bool(TRUE) => settings[obs.setting] = Bool(FALSE)
              /\ obs.before[obs.setting] \in {Str(""), [kind |-> "int", val |-> 0],
                                              [kind |-> "null", val |-> 0]}
                     => settings[obs.setting] = Bool(TRUE)
              /\ obs.before[obs.setting] \in {Str("yes"), [kind |-> "int", val |-> 3]}
                     => settings[obs.setting] = Bool(FALSE)

\* Two cycles in a row from growth, the key word_wrap being absent.
C22_Witness ==
    /\ obs.cmd = "toggle" /\ obs.setting = "resize_mode" /\ obs.previous = "resize_mode"
    /\ obs.earlier.resize_mode = Str("growth") /\ settings.resize_mode = Str("growth")
    /\ settings.word_wrap = Absent

\* A directional resize with greedy off has chosen a separator, and target
\* lies strictly between the two separators next to it.
DirectionalInside(target) ==
    /\ obs.cmd = "resize" /\ obs.mode = "directional" /\ ~obs.greedy
    /\ obs.point_index >= 1
    /\ obs.point_index + 2 <= Len(get_points(obs.normalized, obs.dimension))
    /\ get_points(obs.normalized, obs.dimension)[obs.point_index] < target
    /\ target < get_points(obs.normalized, obs.dimension)[obs.point_index + 2]

OtherDimension(dimension) == IF dimension = WIDTH THEN HEIGHT ELSE WIDTH

\* The host's layout is `from` with the chosen separator at target and
\* nothing else changed.
OnlyChosenMoved(from, target) ==
    /\ get_points(host, obs.dimension) =
           [get_points(from, obs.dimension) EXCEPT ![obs.point_index + 1] = target]
    /\ get_points(host, OtherDimension(obs.dimension))
           = get_points(from, OtherDimension(obs.dimension))
    /\ host.cells = from.cells
    /\ host.active_group = from.active_group

\* C23: in directional mode with greedy off, when current + amount/100 lies
\* strictly between the two separators next to the chosen one, resize puts the
\* chosen separator at exactly current + amount/100 and leaves the other
\* separators, the other axis, the cell list and the active group as read.
C23_DirectionalExact ==
    DirectionalInside(obs.value + obs.amount * Unit)
        => OnlyChosenMoved(obs.read, obs.value + obs.amount * Unit)

\* C23, amended: when round(current + amount/100, 2) lies strictly between the
\* two separators next to the chosen one, resize puts the chosen separator
\* there and leaves the other separators, the other axis, the cell list and
\* the active group of the normalized layout.
C23_DirectionalRounded ==
    DirectionalInside(Round2(obs.value + obs.amount * Unit))
        => OnlyChosenMoved(obs.normalized, Round2(obs.value + obs.amount * Unit))

\* A column separator that is not on the 0.01 grid (an equalize put it at a
\* third) was moved to a place between the separators next to it.
C23_Witness ==
    /\ DirectionalInside(Round2(obs.value + obs.amount * Unit))
    /\ obs.applied
    /\ obs.value % Unit # 0
    /\ host.cols # obs.normalized.cols

\* A resize in a valid mode chose a separator and computed its new value.
Computed ==
    /\ obs.cmd = "resize" /\ obs.mode \in VALID_RESIZE_MODES
    /\ obs.point_index >= 0 /\ ~obs.raised

\* The new value is not strictly inside the bounds of the move.
OutOfBounds == ~(obs.min < obs.new_value /\ obs.new_value < obs.max)

\* The greedy cascade of the resize observed would push a neighbour outside (0, 1).
CascadeAborts ==
    /\ obs.greedy
    /\ PushedOutside(get_points(obs.normalized, obs.dimension), obs.new_value,
                     obs.point_index + (IF obs.value < obs.new_value THEN 1 ELSE -1),
                     IF obs.value < obs.new_value THEN 1 ELSE -1,
                     obs.amount * obs.sign)

\* C24: when the clamped value is not strictly inside its bounds, or the
\* greedy cascade aborts, resize applies the normalized layout as it was
\* before the move (cols, rows, cells, active group) and reports no error.
C24_DegenerateMoveSilent ==
    (Computed /\ (OutOfBounds \/ CascadeAborts))
        => /\ host = obs.normalized
           /\ ~obs.alert

\* A cascade that aborted on a layout of four column separators.
C24_Witness ==
    /\ Computed /\ ~OutOfBounds /\ CascadeAborts
    /\ obs.new_value # obs.value
    /\ Len(obs.normalized.cols) = 4 /\ obs.dimension = WIDTH

\* A move between separators 0.01 apart: no value is strictly inside.
C24_WitnessOutOfBounds == Computed /\ OutOfBounds /\ ~obs.greedy

\* C25: in get_greedy_points, every neighbour that is pushed is pushed by the
\* amount of the primary move: its new position is its own position before
\* the call plus amount/100 (for separators that are apart, and a primary
\* separator moved by amount).
C25_PushedBySameAmount ==
    (/\ obs.cmd = "greedy"
     /\ StrictlyAscending(obs.read.cols)
     /\ obs.new_value = At(obs.read.cols, obs.point_index) + Pos(obs.amount * obs.sign))
        => \A i \in 1..Len(obs.read.cols) :
               (i # obs.point_index + 1 /\ obs.moved.cols[i] # obs.read.cols[i])
                   => obs.moved.cols[i] = obs.read.cols[i] + Pos(obs.amount * obs.sign)

\* C26: on every axis of two or more separators and for every cell with
\* 0 <= near < far <= len - 1, either selector returns -1 or an index in
\* 1..len-2: never separator 0 or the last one, so that index - 1 and
\* index + 1 are separators of the axis.
C26_SelectedInterior ==
    obs.cmd \in {"growth", "directional"} =>
        \/ obs.point_index = -1
        \/ /\ 1 <= obs.point_index
           /\ obs.point_index <= Len(obs.points) - 2

\* The growth selector was given sign -1 for a cell at the left/top edge and
\* returned the cell's far boundary.
C26_Witness ==
    /\ obs.cmd = "growth" /\ obs.given = -1
    /\ Near(obs.cell, obs.dimension) = 0
    /\ obs.point_index = Far(obs.cell, obs.dimension)
    /\ Len(obs.points) = MaxPoints

\* C26 in the resize command: the separator a resize chooses is never the
\* first or the last of its axis.
C26_ResizeInterior ==
    (obs.cmd = "resize" /\ obs.mode \in VALID_RESIZE_MODES) =>
        \/ obs.point_index = -1
        \/ /\ 1 <= obs.point_index
           /\ obs.point_index <= Len(get_points(obs.normalized, obs.dimension)) - 2

\* C27: under directional resize commands with greedy off, from a layout with
\* strictly ascending axes on the 0.01 grid, both axes stay strictly
\* ascending, the cell list and its order never change, and no pane
\* relocation is requested.
C27_DirectionalKeepsOrder ==
    obs.cmd = "resize" =>
        /\ StrictlyAscending(host.cols) /\ StrictlyAscending(host.rows)
        /\ host.cells = obs.read.cells
        /\ obs.relocations = <<>>

\* C27, amended: both axes stay strictly ascending and the normalization
\* after the move is a no-op: the cell list applied is the one the first
\* normalization produced, and the only relocations requested are those of
\* that first normalization (none when the host lists the cells in sorted
\* order).
C27_DirectionalKeepsNormalized ==
    obs.cmd = "resize" =>
        /\ StrictlyAscending(host.cols) /\ StrictlyAscending(host.rows)
        /\ host.cells = obs.normalized.cells
        /\ host.active_group = obs.normalized.active_group
        /\ obs.relocations = swap_views(obs.read.cells, obs.normalized.cells, 0)
        /\ SortedCells(obs.read.cells) = obs.read.cells
               => (host.cells = obs.read.cells /\ obs.relocations = <<>>)

\* The third resize in a row was clamped next to the neighbouring separator,
\* in a layout of five column separators.
C27_Witness ==
    /\ obs.cmd = "resize" /\ steps = MaxMoves /\ obs.applied
    /\ obs.new_value # obs.value + Pos(obs.amount)
    /\ Len(host.cols) = 5

\* The settings of the resize observed, with greedy_pane as given.
SettingsWith(greedy) ==
    [resize_mode |-> obs.mode, greedy_pane |-> greedy, resize_amount |-> settings.resize_amount]

\* C28: in directional mode the greedy flag has no effect: on a layout with
\* strictly ascending axes, the same resize command with greedy on and with
\* greedy off leaves the host with the same layout.
C28_GreedyIdleInDirectional ==
    (/\ obs.cmd = "resize" /\ obs.mode = "directional"
     /\ StrictlyAscending(obs.read.cols) /\ StrictlyAscending(obs.read.rows))
        => /\ host = resize(obs.read, SettingsWith(FALSE), obs.flag,
                            obs.dimension, obs.amount).host
           /\ host = resize(obs.read, SettingsWith(TRUE), obs.flag,
                            obs.dimension, obs.amount).host

\* A directional resize with greedy on moved a separator of a layout with five
\* column separators up to its neighbour.
C28_Witness ==
    /\ obs.cmd = "resize" /\ obs.mode = "directional" /\ obs.greedy /\ obs.applied
    /\ obs.new_value # obs.value + Pos(obs.amount * obs.sign)
    /\ Len(host.cols) = 5 /\ host.cols # obs.read.cols

\* The separators of the dimension resized, as the resize observed read them.
PointsRead == get_points(obs.read, obs.dimension)

\* The direction in which the resize observed moved its separator.
StepTaken == IF At(PointsRead, obs.point_index) < obs.new_value THEN 1 ELSE -1

\* The cascade of the resize observed pushed a neighbour outside (0, 1).
CascadeAborted ==
    PushedOutside(PointsRead, obs.new_value, obs.point_index + StepTaken, StepTaken,
                  obs.amount * obs.sign)

\* A resize with greedy on that got as far as the cascade.
GreedyMoved == obs.cmd = "resize" /\ obs.greedy /\ obs.applied

\* C29: with greedy on, in either mode, after any sequence of resize commands
\* from strictly ascending axes on the 0.01 grid both axes are strictly
\* ascending from 0.0 to 1.0, and a cascade that pushed a neighbour outside
\* (0, 1) left both axes as they were.
C29_GreedyKeepsAscending ==
    /\ StrictlyAscending(host.cols) /\ StrictlyAscending(host.rows)
    /\ host.cols[1] = 0 /\ host.cols[Len(host.cols)] = One
    /\ host.rows[1] = 0 /\ host.rows[Len(host.rows)] = One
    /\ (GreedyMoved /\ CascadeAborted)
           => (host.cols = obs.read.cols /\ host.rows = obs.read.rows)

\* A cascade that pushed two neighbours and completed.
C29_Witness ==
    /\ GreedyMoved /\ ~CascadeAborted /\ StepTaken = 1
    /\ Len(PointsRead) = 5 /\ obs.point_index = 1
    /\ At(get_points(host, obs.dimension), 2) > At(PointsRead, 2)
    /\ At(get_points(host, obs.dimension), 3) > At(PointsRead, 3)

\* A cascade that pushed a neighbour outside (0, 1).
C29_WitnessAborted ==
    /\ GreedyMoved /\ CascadeAborted
    /\ obs.new_value # At(PointsRead, obs.point_index)

\* Every unit rectangle of the layout's grid lies in exactly one cell.
Tiles(layout) ==
    \A x \in 0..(Len(layout.cols) - 2) : \A y \in 0..(Len(layout.rows) - 2) :
        Cardinality({k \in 1..Len(layout.cells) :
                        /\ At(layout.cells[k], X_1) <= x /\ x < At(layout.cells[k], X_2)
                        /\ At(layout.cells[k], Y_1) <= y /\ y < At(layout.cells[k], Y_2)}) = 1

\* Every window TilingSpec builds is a well-formed tiling.
TilingsWellFormed == Tiles(host) /\ IndicesInRange(host) /\ NonDegenerate(host)

\* C30: get_point_min_max is total and brackets the separator: on a
\* well-formed tiling, for an active cell that does not span the axis and the
\* separator and sign the growth selector chose, it does not fail on an empty
\* neighbour set, and min index < separator index < max index.
C30_BoundsBracket ==
    (obs.cmd = "bounds" /\ Tiles(host))
        => /\ ~obs.result.raises
           /\ obs.result.min < obs.point_index
           /\ obs.point_index < obs.result.max

\* Sign -1 with no cell beginning where the active cell ends: the upper bound
\* came from the second search, from the cells beginning where the cell begins.
C30_Witness ==
    /\ obs.cmd = "bounds" /\ obs.sign = -1
    /\ get_adjacent_cells(At(obs.cell, get_indices(obs.dimension)[2]), obs.cells,
                          OPPOSITE(get_adjacent_direction(obs.dimension, obs.sign))) = {}
    /\ obs.result.max > obs.point_index + 1

\* Sign +1 with bounds further away than the neighbouring separators.
C30_WitnessUp ==
    /\ obs.cmd = "bounds" /\ obs.sign = 1
    /\ obs.result.max > obs.point_index + 1
    /\ obs.result.min < obs.point_index - 1

====
